---------------------------- MODULE Spec2Model ----------------------------
(***************************************************************************)
(* A model of the vector editor's state machinery:                         *)
(*   - the undo/redo history engine (useUndoRedo, utils/performance.ts),   *)
(*   - the editor state store built on it (useEditorState),                *)
(*   - the ChunkedProcessor and processBulkTransform.                      *)
(*   - the BatchUpdater, the geometry kernel, pencil strokes, the text     *)
(*     editor and the transformer-attach effect of MultiSelectionGroup.    *)
(* Each component has its own specification; a specification leaves the    *)
(* variables of the other components unchanged.                            *)
(***************************************************************************)
EXTENDS Integers, Sequences, FiniteSets, TLC

VARIABLES
    hist,       \* generic history frame {past, present, future, lastGroup}
    last,       \* history: what the last call was (observer)
    cyc,        \* history: observer of "sets, then n undos, then n redos"
    st,         \* store: the history frame of EditorState snapshots
    nextId,     \* store: the next id generateId() hands out
    rafq,       \* store: pending processChunk animation-frame callbacks
    slast,      \* store: what the last store call was (observer)
    steps,      \* store: number of calls made so far
    cp,         \* ChunkedProcessor: isProcessing, cancelRequested
    runs,       \* processBulkTransform calls made so far and their state
    bu,         \* BatchUpdater: updates, highPriorityUpdates, rafId
    bseq,       \* BatchUpdater: number of add() calls made so far
    blast,      \* BatchUpdater: the callbacks the last flush ran, in order
    bhost,      \* BatchUpdater: the host's requested frames and timers
    bobs,       \* BatchUpdater: callbacks run / discarded so far (observer)
    geo,        \* geometry kernel: the inputs drawn and the results computed
    tr          \* MultiSelectionGroup: selection, attach timers, transformer

histVars == <<hist, last, cyc>>
storeVars == <<st, nextId, rafq, slast, steps>>
chunkVars == <<cp, runs>>
batchVars == <<bu, bseq, blast, bhost, bobs>>
geomVars == <<geo>>
attachVars == <<tr>>
vars == <<hist, last, cyc, st, nextId, rafq, slast, steps, cp, runs, bu, bseq,
          blast, bhost, bobs, geo, tr>>

(***************************************************************************)
(* Bounds of the model.                                                    *)
(***************************************************************************)
\* the `limit` option the generic engine is instantiated with
Limit == 2
\* snapshots of the generic engine are the values 0..MaxVal
MaxVal == 2
\* longest run of undos the observer `cyc` follows
MaxRun == 2
\* ids generateId() can hand out in the small-document store
MaxIds == 2
\* calls explored in the small-document store
MaxSteps == 4
\* selectAllElements runs that may be pending at once
MaxRafRuns == 1
\* rects in the large imported document (above the select-all threshold)
BigDoc == 101
\* calls explored once the large document is loaded
MaxBigSteps == 6
\* processBulkTransform calls explored
MaxRuns == 2
\* BatchUpdater.add calls explored
MaxAdds == 4
\* bursts of add() calls explored
MaxBursts == 1
\* flips in a row explored
MaxFlips == 2
MaxDrawSteps == 6
MaxSelections == 3

Vals == 0..MaxVal

\* JavaScript null for a group key, and the keys groupBy may return
Null == "<null>"
GroupKeys == {Null, "", "a", "b"}

\* JavaScript truthiness of a string-or-null group key
Truthy(k) == k # Null /\ k # ""

(***************************************************************************)
(* Undo/redo history engine                                                *)
(***************************************************************************)
\* useState initial value
UR_init(initialState) ==
    [past |-> <<>>, present |-> initialState, future |-> <<>>, lastGroup |-> Null]

\* array.slice(-n) for n > 0
SliceLast(s, n) ==
    IF Len(s) > n THEN SubSeq(s, Len(s) - n + 1, Len(s)) ELSE s

LimitedPast_dropNewest(newPast, limit) ==
    IF limit # 0 /\ Len(newPast) > limit THEN SubSeq(newPast, 1, limit) ELSE newPast

LimitedPast_noLimit(newPast, limit) ==
    newPast

\* const limitedPast = limit && newPast.length > limit ? newPast.slice(-limit) : newPast
LimitedPast(newPast, limit) ==
    IF limit # 0 /\ Len(newPast) > limit THEN SliceLast(newPast, limit) ELSE newPast

ShouldGroup_ignoreLast(h, currentGroup) ==
    Truthy(currentGroup) /\ Len(h.past) > 0

\* currentGroup && currentGroup === lastGroup && past.length > 0
ShouldGroup(h, currentGroup) ==
    Truthy(currentGroup) /\ currentGroup = h.lastGroup /\ Len(h.past) > 0

UR_setState_skipEndsGroup(h, limit, nextState, refEq, skipHistory, filterOK, currentGroup) ==
    IF skipHistory \/ refEq
    THEN [h EXCEPT !.present = nextState, !.lastGroup = Null]
    ELSE IF ~filterOK
    THEN [h EXCEPT !.present = nextState]
    ELSE IF ShouldGroup(h, currentGroup)
    THEN [h EXCEPT !.present = nextState, !.future = <<>>]
    ELSE [past |-> LimitedPast(Append(h.past, h.present), limit),
          present |-> nextState,
          future |-> <<>>,
          lastGroup |-> currentGroup]

UR_setState_keepFuture(h, limit, nextState, refEq, skipHistory, filterOK, currentGroup) ==
    IF skipHistory \/ refEq
    THEN [h EXCEPT !.present = nextState]
    ELSE IF ~filterOK
    THEN [h EXCEPT !.present = nextState]
    ELSE IF ShouldGroup(h, currentGroup)
    THEN [h EXCEPT !.present = nextState, !.future = <<>>]
    ELSE [past |-> LimitedPast(Append(h.past, h.present), limit),
          present |-> nextState,
          future |-> h.future,
          lastGroup |-> currentGroup]

\* setState's updater.  refEq: prev.present === nextState; filterOK: the
\* value of filter(prev.present, nextState) (TRUE when no filter is given);
\* currentGroup: the value of groupBy(prev.present, nextState) (Null when
\* no groupBy is given).
UR_setState(h, limit, nextState, refEq, skipHistory, filterOK, currentGroup) ==
    IF skipHistory \/ refEq
    THEN [h EXCEPT !.present = nextState]
    ELSE IF ~filterOK
    THEN [h EXCEPT !.present = nextState]
    ELSE IF ShouldGroup(h, currentGroup)
    THEN [h EXCEPT !.present = nextState, !.future = <<>>]
    ELSE [past |-> LimitedPast(Append(h.past, h.present), limit),
          present |-> nextState,
          future |-> <<>>,
          lastGroup |-> currentGroup]

UR_undo_keepGroup(h) ==
    IF Len(h.past) = 0 THEN h
    ELSE [past |-> SubSeq(h.past, 1, Len(h.past) - 1),
          present |-> h.past[Len(h.past)],
          future |-> <<h.present>> \o h.future,
          lastGroup |-> h.lastGroup]

UR_undo_oldest(h) ==
    IF Len(h.past) = 0 THEN h
    ELSE [past |-> Tail(h.past),
          present |-> h.past[1],
          future |-> <<h.present>> \o h.future,
          lastGroup |-> Null]

UR_undo(h) ==
    IF Len(h.past) = 0 THEN h
    ELSE [past |-> SubSeq(h.past, 1, Len(h.past) - 1),
          present |-> h.past[Len(h.past)],
          future |-> <<h.present>> \o h.future,
          lastGroup |-> Null]

UR_redo_dropPresent(h) ==
    IF Len(h.future) = 0 THEN h
    ELSE [past |-> h.past,
          present |-> h.future[1],
          future |-> Tail(h.future),
          lastGroup |-> Null]

UR_redo(h) ==
    IF Len(h.future) = 0 THEN h
    ELSE [past |-> Append(h.past, h.present),
          present |-> h.future[1],
          future |-> Tail(h.future),
          lastGroup |-> Null]

UR_clearHistory(h) ==
    [past |-> <<>>, present |-> h.present, future |-> <<>>, lastGroup |-> Null]

canUndo(h) == Len(h.past) > 0
canRedo(h) == Len(h.future) > 0

(***************************************************************************)
(* Editor state store (useEditorState)                                     *)
(*                                                                         *)
(* An element is a record whose domain is the set of keys the JavaScript   *)
(* object has (id, type, x, isSelected, and selectionMode / points once    *)
(* they were written).  A snapshot carries, beside the EditorState fields, *)
(* four identity marks: whether the object, its elements array, its pan    *)
(* object and its selectedElementIds array are the ones of the module      *)
(* constant initialState.  Every other identity comparison the code makes  *)
(* is between a snapshot and the one an updater derives from it, and is    *)
(* known from the updater.                                                 *)
(***************************************************************************)
\* JavaScript undefined / null for the string-valued and id-valued fields
Undef == "undefined"
NullId == 0

\* limit: 50
STORE_LIMIT == 50
\* if (allElementIds.length > 100)
SELECT_ALL_THRESHOLD == 100
\* const chunkSize = 50
SELECT_CHUNK == 50

Min(a, b) == IF a < b THEN a ELSE b
Max(a, b) == IF a > b THEN a ELSE b

\* { ...el, ...u }
Merge(el, u) ==
    [k \in DOMAIN el \cup DOMAIN u |-> IF k \in DOMAIN u THEN u[k] ELSE el[k]]

MapSeq(s, F(_)) == [i \in 1..Len(s) |-> F(s[i])]

\* array.filter
FilterSeq(s, T(_)) == SelectSeq(s, T)

Range(s) == {s[i] : i \in 1..Len(s)}

\* zoom is kept in tenths: 10 is zoom 1, the clamp is [0.1, 5]
initialState ==
    [elements |-> <<>>, selectedElementId |-> NullId, selectedElementIds |-> <<>>,
     tool |-> "select", zoom |-> 10, pan |-> [x |-> 0, y |-> 0],
     isInitial |-> TRUE, elementsInitial |-> TRUE, panInitial |-> TRUE,
     idsInitial |-> TRUE]

\* The result of an updater: the next snapshot and which of its parts are
\* the very objects of the previous snapshot.
Updated(next, sameElements, samePan, sameIds) ==
    [s |-> [next EXCEPT
                !.isInitial = FALSE,
                !.elementsInitial = next.elementsInitial /\ sameElements,
                !.panInitial = next.panInitial /\ samePan,
                !.idsInitial = next.idsInitial /\ sameIds],
     same |-> FALSE,
     sameElements |-> sameElements, samePan |-> samePan, sameIds |-> sameIds]

\* return prev
Unchanged(prev) ==
    [s |-> prev, same |-> TRUE, sameElements |-> TRUE, samePan |-> TRUE,
     sameIds |-> TRUE]

ShallowEqual_valuesOnly(obj1, obj2) ==
    \A key \in DOMAIN obj1 :
        IF key \in DOMAIN obj2 THEN obj1[key] = obj2[key] ELSE obj1[key] = Undef

\* shallowEqual(obj1, obj2)
ShallowEqual(obj1, obj2) ==
    /\ Cardinality(DOMAIN obj1) = Cardinality(DOMAIN obj2)
    /\ \A key \in DOMAIN obj1 :
        IF key \in DOMAIN obj2 THEN obj1[key] = obj2[key] ELSE obj1[key] = Undef

\* the filter option of useEditorState
Filter(prev, u) ==
    IF ~u.samePan \/ prev.zoom # u.s.zoom THEN FALSE
    ELSE IF prev.tool # u.s.tool THEN FALSE
    ELSE IF u.sameElements
            /\ (prev.selectedElementId # u.s.selectedElementId \/ ~u.sameIds)
    THEN FALSE
    ELSE TRUE

IsLiveDrawing(prevEl, nextEl) ==
    /\ prevEl.type = "drawing" /\ nextEl.type = "drawing"
    /\ prevEl.id = nextEl.id
    /\ "points" \in DOMAIN prevEl /\ "points" \in DOMAIN nextEl
    /\ prevEl.points < nextEl.points

GroupBy_none(prev, next) == Null

\* the groupBy option of useEditorState (points holds the array's length)
GroupBy(prev, next) ==
    IF Len(prev.elements) = Len(next.elements)
    THEN LET hits == {i \in 1..Len(prev.elements) :
                        IsLiveDrawing(prev.elements[i], next.elements[i])}
         IN  IF hits = {} THEN Null
             ELSE LET i == CHOOSE j \in hits : \A k \in hits : j <= k
                  IN  "drawing-" \o ToString(prev.elements[i].id)
    ELSE Null

\* setState(updater, skipHistory) of the store's useUndoRedo instance
StoreSet(h, u, skipHistory) ==
    UR_setState(h, STORE_LIMIT, u.s, u.same, skipHistory,
                Filter(h.present, u), GroupBy(h.present, u.s))

\* ---- updaters --------------------------------------------------------
addElement_u(prev, element, id) ==
    Updated([prev EXCEPT !.elements =
                Append(prev.elements,
                       Merge(element, [id |-> id, isSelected |-> FALSE]))],
            FALSE, TRUE, TRUE)

SelectOne_noToggle(prev, elementId, el) ==
    IF el.id = elementId
    THEN Merge(el, [isSelected |-> TRUE, selectionMode |-> "transform"])
    ELSE Merge(el, [isSelected |-> FALSE, selectionMode |-> Undef])

SelectOne(prev, elementId, el) ==
    IF el.id = elementId
    THEN IF el.isSelected /\ Len(prev.selectedElementIds) <= 1
         THEN Merge(el, [selectionMode |->
                    IF "selectionMode" \in DOMAIN el
                       /\ el.selectionMode = "transform"
                    THEN "edit" ELSE "transform"])
         ELSE Merge(el, [isSelected |-> TRUE, selectionMode |-> "transform"])
    ELSE Merge(el, [isSelected |-> FALSE, selectionMode |-> Undef])

selectElement_u(prev, elementId) ==
    LET F(el) == SelectOne(prev, elementId, el)
    IN  Updated([prev EXCEPT
                    !.selectedElementId = elementId,
                    !.selectedElementIds =
                        IF elementId # NullId THEN <<elementId>> ELSE <<>>,
                    !.elements = MapSeq(prev.elements, F)],
                FALSE, TRUE, FALSE)

selectMultipleElements_noSingle(prev, elementIds) ==
    LET currentIds == prev.selectedElementIds
        F(el) == Merge(el, [isSelected |-> el.id \in Range(elementIds),
                            selectionMode |->
                                IF el.id \in Range(elementIds)
                                THEN "transform" ELSE Undef])
    IN  IF Len(currentIds) = Len(elementIds)
           /\ \A i \in 1..Len(currentIds) : currentIds[i] \in Range(elementIds)
        THEN Unchanged(prev)
        ELSE Updated([prev EXCEPT
                        !.selectedElementIds = elementIds,
                        !.selectedElementId = NullId,
                        !.elements = MapSeq(prev.elements, F)],
                     FALSE, TRUE, FALSE)

selectMultipleElements_u(prev, elementIds) ==
    LET currentIds == prev.selectedElementIds
        F(el) == Merge(el, [isSelected |-> el.id \in Range(elementIds),
                            selectionMode |->
                                IF el.id \in Range(elementIds)
                                THEN "transform" ELSE Undef])
    IN  IF Len(currentIds) = Len(elementIds)
           /\ \A i \in 1..Len(currentIds) : currentIds[i] \in Range(elementIds)
        THEN Unchanged(prev)
        ELSE Updated([prev EXCEPT
                        !.selectedElementIds = elementIds,
                        !.selectedElementId =
                            IF Len(elementIds) = 1 THEN elementIds[1]
                            ELSE NullId,
                        !.elements = MapSeq(prev.elements, F)],
                     FALSE, TRUE, FALSE)

Deselected_keepMode(el) == Merge(el, [isSelected |-> FALSE])

Deselected(el) == Merge(el, [isSelected |-> FALSE, selectionMode |-> Undef])

clearSelection_u(prev) ==
    IF prev.selectedElementId = NullId /\ Len(prev.selectedElementIds) = 0
    THEN Unchanged(prev)
    ELSE Updated([prev EXCEPT
                    !.selectedElementId = NullId,
                    !.selectedElementIds = <<>>,
                    !.elements = MapSeq(prev.elements, Deselected)],
                 FALSE, TRUE, FALSE)

\* prev.elements.findIndex(el => el.id === elementId), 0 for -1
FindIndex_orFirst(elements, elementId) ==
    LET hits == {i \in 1..Len(elements) : elements[i].id = elementId}
    IN  IF hits = {} THEN Min(1, Len(elements))
        ELSE CHOOSE i \in hits : \A j \in hits : i <= j

FindIndex(elements, elementId) ==
    LET hits == {i \in 1..Len(elements) : elements[i].id = elementId}
    IN  IF hits = {} THEN 0 ELSE CHOOSE i \in hits : \A j \in hits : i <= j

updateElement_u(prev, elementId, updates) ==
    LET elementIndex == FindIndex(prev.elements, elementId)
    IN  IF elementIndex = 0 THEN Unchanged(prev)
        ELSE IF ShallowEqual(updates, prev.elements[elementIndex])
        THEN Unchanged(prev)
        ELSE Updated([prev EXCEPT
                        !.elements[elementIndex] =
                            Merge(prev.elements[elementIndex], updates)],
                     FALSE, TRUE, TRUE)

\* updates: a sequence of [id, updates]; new Map(...) keeps the last entry
\* of an id
UpdateFor(updates, id) ==
    LET hits == {i \in 1..Len(updates) : updates[i].id = id}
    IN  IF hits = {} THEN <<>>
        ELSE <<updates[CHOOSE i \in hits : \A j \in hits : j <= i].updates>>

updateMultipleElements_u(prev, updates) ==
    LET Touched(el) ==
            /\ UpdateFor(updates, el.id) # <<>>
            /\ ~ShallowEqual(UpdateFor(updates, el.id)[1], el)
        F(el) == IF Touched(el) THEN Merge(el, UpdateFor(updates, el.id)[1])
                 ELSE el
        hasChanges == \E i \in 1..Len(prev.elements) : Touched(prev.elements[i])
    IN  IF hasChanges
        THEN Updated([prev EXCEPT !.elements = MapSeq(prev.elements, F)],
                     FALSE, TRUE, TRUE)
        ELSE Unchanged(prev)

deleteElement_keepSelection(prev, elementId) ==
    LET Keep(el) == el.id # elementId
    IN  Updated([prev EXCEPT
                    !.elements = FilterSeq(prev.elements, Keep)],
                FALSE, TRUE, TRUE)

deleteElement_u(prev, elementId) ==
    LET Keep(el) == el.id # elementId
        KeepId(id) == id # elementId
    IN  Updated([prev EXCEPT
                    !.elements = FilterSeq(prev.elements, Keep),
                    !.selectedElementId =
                        IF prev.selectedElementId = elementId THEN NullId
                        ELSE prev.selectedElementId,
                    !.selectedElementIds =
                        FilterSeq(prev.selectedElementIds, KeepId)],
                FALSE, TRUE, FALSE)

setTool_u(prev, tool) ==
    Updated([prev EXCEPT
                !.tool = tool,
                !.selectedElementId = NullId,
                !.selectedElementIds = <<>>,
                !.elements = MapSeq(prev.elements, Deselected)],
            FALSE, TRUE, FALSE)

setZoom_u(prev, zoom) ==
    Updated([prev EXCEPT !.zoom = Max(1, Min(50, zoom))], TRUE, TRUE, TRUE)

setPan_u(prev, pan) ==
    Updated([prev EXCEPT !.pan = pan], TRUE, FALSE, TRUE)

\* the final setState of importSVG; newElements are the parsed shapes
importSVG_u(prev, newElements) ==
    Updated([prev EXCEPT
                !.elements = newElements,
                !.selectedElementId = NullId,
                !.selectedElementIds = <<>>],
            FALSE, TRUE, FALSE)

importSVG_clearFirst(h, valid, newElements) ==
    StoreSet(h, importSVG_u(h.present, IF valid THEN newElements ELSE <<>>),
             FALSE)

\* importSVG(svgContent) on the history h.  valid: the content has an svg
\* root and no parsererror; otherwise the call throws before its setState.
importSVG(h, valid, newElements) ==
    IF valid THEN StoreSet(h, importSVG_u(h.present, newElements), FALSE)
    ELSE h

\* setState(initialState)
clearCanvas_u(prev) ==
    [s |-> initialState, same |-> prev.isInitial,
     sameElements |-> prev.elementsInitial, samePan |-> prev.panInitial,
     sameIds |-> prev.idsInitial]

\* shapes importSVG builds from a document with n rects
ImportedElements(first, n) ==
    [i \in 1..n |-> [id |-> first + i - 1, type |-> "rect", x |-> 0,
                     isSelected |-> FALSE]]

\* the first setState of the chunked branch of selectAllElements
selectAllStart_u(prev, allElementIds) ==
    Updated([prev EXCEPT !.selectedElementIds = allElementIds,
                         !.selectedElementId = NullId],
            TRUE, TRUE, FALSE)

\* the setState of processChunk; from is the value of processedCount the
\* updater reads
processChunk_u(prev, from) ==
    LET F(i) == IF i - 1 >= from /\ i - 1 < from + SELECT_CHUNK
                THEN Merge(prev.elements[i],
                           [isSelected |-> TRUE, selectionMode |-> "transform"])
                ELSE prev.elements[i]
    IN  Updated([prev EXCEPT
                    !.elements = [i \in 1..Len(prev.elements) |-> F(i)]],
                FALSE, TRUE, TRUE)

\* ---- the store driven by calls ------------------------------------------
\* the ids handed out so far (those of live elements and stale ones); of a
\* large document, its first and last
Ids == IF nextId - 1 <= MaxIds THEN 1..(nextId - 1) ELSE {1, nextId - 1}

\* calls explored: more once the large document is loaded
Budget == IF nextId - 1 <= MaxIds THEN MaxSteps ELSE MaxBigSteps
Tools == {"select", "rect"}
XVals == {0, 1}
ZoomInputs == {70}
PanInputs == {[x |-> 5, y |-> 0]}

\* id lists of length up to 2, in document order
IdLists ==
    {<<>>} \cup {<<a>> : a \in Ids} \cup {c \in Ids \X Ids : c[1] < c[2]}

\* new ChunkedProcessor(): isProcessing = false, cancelRequested = false
\* no multi-selection yet: no attach timer, the transformer holds no node.
\* sel numbers the multi-selections made; nodes is the selection whose
\* nodes the transformer holds (0: none); timers are the pending
\* setTimeout(updateTransformer, ...) calls, each with the selection of its
\* closure and that closure's retryCount; attaches counts the calls of
\* trRef.current.nodes(nodes) made by updateTransformer
AttachIdle ==
    tr = [sel |-> 0, multi |-> FALSE, nodes |-> 0, timers |-> {},
          attaches |-> 0]

ChunkStart ==
    /\ cp = [isProcessing |-> FALSE, cancelRequested |-> FALSE]
    /\ runs = <<>>

\* rafId = null
NoFrame == 0

\* new BatchUpdater(): updates = [], rafId = null, highPriorityUpdates = []
BatchStart ==
    /\ bu = [updates |-> <<>>, highPriorityUpdates |-> <<>>, rafId |-> NoFrame]
    /\ bseq = 0
    /\ blast = <<>>
    /\ bhost = [frames |-> {}, timers |-> 0]
    /\ bobs = [executed |-> {}, cleared |-> {}, bursts |-> 0]

\* no geometry call is being examined
GeomIdle == geo = [phase |-> "idle"]

StoreStart ==
    /\ st = UR_init(initialState)
    /\ nextId = 1
    /\ rafq = <<>>
    /\ slast = [op |-> "init", noop |-> FALSE, id |-> NullId, ids |-> <<>>]
    /\ steps = 0


\* every key of updates already has that value in el
NoOpUpdate(el, updates) ==
    \A k \in DOMAIN updates : k \in DOMAIN el /\ el[k] = updates[k]

ElementWithId(elements, id) == elements[FindIndex(elements, id)]

\* the observer's record of a call: its name, whether it was an update
\* that changes no value, and the id / id list it was given
CalledWith(op, noop, id, ids) ==
    /\ slast' = [op |-> op, noop |-> noop, id |-> id, ids |-> ids]
    /\ steps' = steps + 1
    /\ UNCHANGED <<histVars, chunkVars, batchVars, geomVars, attachVars>>

Called(op, noop) == CalledWith(op, noop, NullId, <<>>)

SAddElement ==
    /\ steps < Budget /\ nextId <= MaxIds
    /\ \E x \in {0} :
        st' = StoreSet(st, addElement_u(st.present,
                                        [type |-> "rect", x |-> x], nextId),
                       FALSE)
    /\ nextId' = nextId + 1
    /\ Called("addElement", FALSE)
    /\ UNCHANGED rafq

SSelectElement ==
    /\ steps < Budget
    /\ \E elementId \in Ids \cup {NullId} :
        /\ st' = StoreSet(st, selectElement_u(st.present, elementId), FALSE)
        /\ CalledWith("selectElement", FALSE, elementId, <<>>)
    /\ UNCHANGED <<nextId, rafq>>

SSelectMultipleElements ==
    /\ steps < Budget
    /\ \E elementIds \in IdLists :
        /\ st' = StoreSet(st, selectMultipleElements_u(st.present,
                                                      elementIds), FALSE)
        /\ CalledWith("selectMultipleElements", FALSE, NullId, elementIds)
    /\ UNCHANGED <<nextId, rafq>>

SClearSelection ==
    /\ steps < Budget
    /\ st' = StoreSet(st, clearSelection_u(st.present), FALSE)
    /\ Called("clearSelection", FALSE)
    /\ UNCHANGED <<nextId, rafq>>

\* selectAllElements; state.elements is the rendered present
SSelectAllElements ==
    /\ steps < Budget
    /\ LET allElementIds == [i \in 1..Len(st.present.elements) |->
                                st.present.elements[i].id]
       IN  IF Len(allElementIds) > SELECT_ALL_THRESHOLD
           THEN /\ Len(rafq) < MaxRafRuns
                /\ st' = StoreSet(st, selectAllStart_u(st.present,
                                                       allElementIds), FALSE)
                /\ rafq' = Append(rafq, [processedCount |-> 0,
                                         total |-> Len(allElementIds)])
           ELSE /\ st' = StoreSet(st, selectMultipleElements_u(st.present,
                                                        allElementIds), FALSE)
                /\ rafq' = rafq
    /\ Called("selectAllElements", FALSE)
    /\ UNCHANGED nextId

\* one animation frame of processChunk.  React may run the updater at once
\* or at the next render, after processedCount += chunkSize has run: the
\* updater reads processedCount as either value.
SProcessChunk ==
    /\ steps < Budget
    /\ rafq # <<>>
    /\ LET r == Head(rafq)
           done == r.processedCount + SELECT_CHUNK
       IN  /\ \E from \in {r.processedCount, done} :
                st' = StoreSet(st, processChunk_u(st.present, from), FALSE)
           /\ rafq' = IF done < r.total
                      THEN Append(Tail(rafq), [r EXCEPT !.processedCount = done])
                      ELSE Tail(rafq)
    /\ Called("processChunk", FALSE)
    /\ UNCHANGED nextId

SUpdateElement ==
    /\ steps < Budget
    /\ \E elementId \in Ids :
        LET found == FindIndex(st.present.elements, elementId) # 0
            choices == {[x |-> v] : v \in XVals}
                       \cup (IF found
                             THEN {ElementWithId(st.present.elements, elementId)}
                             ELSE {})
        IN  \E updates \in choices :
                /\ st' = StoreSet(st, updateElement_u(st.present, elementId,
                                                      updates), FALSE)
                /\ CalledWith("updateElement",
                          found /\ NoOpUpdate(ElementWithId(st.present.elements,
                                                            elementId), updates),
                          elementId, <<>>)
    /\ UNCHANGED <<nextId, rafq>>

SUpdateMultipleElements ==
    /\ steps < Budget
    /\ \E ids \in IdLists, v \in {0} :
        LET updates == [i \in 1..Len(ids) |-> [id |-> ids[i],
                                                  updates |-> [x |-> v]]]
            targets == {i \in 1..Len(st.present.elements) :
                            st.present.elements[i].id \in Range(ids)}
        IN  /\ st' = IF Len(updates) = 0 THEN st
                     ELSE StoreSet(st, updateMultipleElements_u(st.present,
                                                                updates), FALSE)
            /\ CalledWith("updateMultipleElements",
                          /\ targets # {}
                          /\ \A i \in targets :
                                NoOpUpdate(st.present.elements[i], [x |-> v]),
                          NullId, ids)
    /\ UNCHANGED <<nextId, rafq>>

SDeleteElement ==
    /\ steps < Budget
    /\ \E elementId \in Ids :
        st' = StoreSet(st, deleteElement_u(st.present, elementId), FALSE)
    /\ Called("deleteElement", FALSE)
    /\ UNCHANGED <<nextId, rafq>>

SSetTool ==
    /\ steps < Budget
    /\ \E tool \in Tools :
        st' = StoreSet(st, setTool_u(st.present, tool), TRUE)
    /\ Called("setTool", FALSE)
    /\ UNCHANGED <<nextId, rafq>>

SSetZoom ==
    /\ steps < Budget
    /\ \E zoom \in ZoomInputs :
        st' = StoreSet(st, setZoom_u(st.present, zoom), TRUE)
    /\ Called("setZoom", FALSE)
    /\ UNCHANGED <<nextId, rafq>>

SSetPan ==
    /\ steps < Budget
    /\ \E pan \in PanInputs :
        st' = StoreSet(st, setPan_u(st.present, pan), TRUE)
    /\ Called("setPan", FALSE)
    /\ UNCHANGED <<nextId, rafq>>

\* importSVG of a valid document with n rects
SImportSVG ==
    /\ steps < Budget
    /\ \E n \in 0..MaxIds :
        /\ nextId + n - 1 <= MaxIds
        /\ st' = importSVG(st, TRUE, ImportedElements(nextId, n))
        /\ nextId' = nextId + n
    /\ Called("importSVG", FALSE)
    /\ UNCHANGED rafq

\* importSVG of a valid document with BigDoc rects into the fresh editor
SImportSVGBig ==
    /\ steps < Budget /\ nextId = 1
    /\ st' = importSVG(st, TRUE, ImportedElements(nextId, BigDoc))
    /\ nextId' = nextId + BigDoc
    /\ Called("importSVG", FALSE)
    /\ UNCHANGED rafq

\* importSVG of a document without svg root or with a parser error: throws
\* before any setState
SImportSVGInvalid ==
    /\ steps < Budget
    /\ st' = importSVG(st, FALSE, <<>>)
    /\ Called("importSVGInvalid", FALSE)
    /\ UNCHANGED <<nextId, rafq>>

SClearCanvas ==
    /\ steps < Budget
    /\ st' = StoreSet(st, clearCanvas_u(st.present), FALSE)
    /\ Called("clearCanvas", FALSE)
    /\ UNCHANGED <<nextId, rafq>>

SUndo ==
    /\ steps < Budget
    /\ st' = UR_undo(st)
    /\ Called("undo", FALSE)
    /\ UNCHANGED <<nextId, rafq>>

SRedo ==
    /\ steps < Budget
    /\ st' = UR_redo(st)
    /\ Called("redo", FALSE)
    /\ UNCHANGED <<nextId, rafq>>

StoreNext ==
    \/ SAddElement \/ SSelectElement \/ SSelectMultipleElements
    \/ SClearSelection \/ SSelectAllElements \/ SUpdateElement
    \/ SUpdateMultipleElements \/ SDeleteElement \/ SSetTool \/ SSetZoom
    \/ SSetPan \/ SImportSVG \/ SImportSVGInvalid \/ SClearCanvas
    \/ SUndo \/ SRedo

HistIdle ==
    /\ hist = UR_init(0)
    /\ last = [op |-> "init", key |-> Null, pre |-> 0, prevOp |-> "init",
               rep |-> FALSE, full |-> FALSE, fresh |-> FALSE,
               pushed |-> FALSE, kept |-> FALSE, prevFresh |-> FALSE,
               prevPushed |-> FALSE, arg |-> 0, grp |-> Null,
               prevGrp |-> Null]
    /\ cyc = [phase |-> "sets", k |-> 0, base |-> 0]

StoreInit ==
    /\ HistIdle
    /\ StoreStart
    /\ ChunkStart
    /\ AttachIdle
    /\ BatchStart
    /\ GeomIdle

SpecStore == StoreInit /\ [][StoreNext]_vars

\* The store with a document large enough for the chunked selectAllElements
StoreBigNext ==
    \/ SImportSVGBig \/ SSelectAllElements \/ SProcessChunk
    \/ SSelectElement \/ SClearSelection \/ SDeleteElement \/ SUndo

SpecStoreBig == StoreInit /\ [][StoreBigNext]_vars

(***************************************************************************)
(* The store with the text editor of TextElement.tsx, which writes         *)
(* selectionMode through updateElement.  The editor's textarea exists only *)
(* while the element's selectionMode is 'edit': the effect on              *)
(* element.selectionMode opens it and the effect's cleanup removes it when *)
(* the mode changes.                                                       *)
(***************************************************************************)
\* handleDblClick: onUpdate(element.id, { selectionMode: 'edit' })
STextDblClick ==
    /\ steps < Budget
    /\ \E elementId \in Ids :
        /\ FindIndex(st.present.elements, elementId) # 0
        /\ ElementWithId(st.present.elements, elementId).isSelected
        /\ Len(st.present.selectedElementIds) <= 1
        /\ st' = StoreSet(st, updateElement_u(st.present, elementId,
                                              [selectionMode |-> "edit"]),
                          FALSE)
        /\ CalledWith("textDblClick", FALSE, elementId, <<>>)
    /\ UNCHANGED <<nextId, rafq>>

\* handleKeyDown (Enter) and handleBlur of the open textarea:
\* onUpdate(element.id, { text, selectionMode: 'transform' })
STextCommit ==
    /\ steps < Budget
    /\ \E elementId \in Ids, text \in XVals :
        /\ FindIndex(st.present.elements, elementId) # 0
        /\ LET el == ElementWithId(st.present.elements, elementId)
           IN  "selectionMode" \in DOMAIN el /\ el.selectionMode = "edit"
        /\ st' = StoreSet(st, updateElement_u(st.present, elementId,
                                [text |-> text, selectionMode |-> "transform"]),
                          FALSE)
        /\ CalledWith("textCommit", FALSE, elementId, <<>>)
    /\ UNCHANGED <<nextId, rafq>>

SelectNext ==
    \/ SAddElement \/ SSelectElement \/ SSelectMultipleElements
    \/ SClearSelection \/ SSelectAllElements \/ SDeleteElement \/ SSetTool
    \/ SImportSVG \/ SClearCanvas \/ SUndo \/ SRedo
    \/ STextDblClick \/ STextCommit

SpecSelect == StoreInit /\ [][SelectNext]_vars

(***************************************************************************)
(* Pencil strokes: addDrawingLine on mouse down, updateDrawingLine on      *)
(* every mouse move of the stroke (SVGEditor.tsx), with pan, zoom and tool *)
(* changes in between.  The points of a drawing are held as the length of  *)
(* its points array.  Here slast records the stroke in progress.           *)
(***************************************************************************)
\* the updater of addDrawingLine(points, stroke, strokeWidth)
addDrawingLine_u(prev, points, id) ==
    Updated([prev EXCEPT !.elements =
                Append(prev.elements,
                       [id |-> id, type |-> "drawing", x |-> 0, y |-> 0,
                        points |-> points, isSelected |-> FALSE])],
            FALSE, TRUE, TRUE)

\* the updater of updateDrawingLine(elementId, points)
updateDrawingLine_u(prev, elementId, points) ==
    LET F(el) == IF el.id = elementId
                 THEN Merge(el, [points |-> points]) ELSE el
    IN  Updated([prev EXCEPT !.elements = MapSeq(prev.elements, F)],
                FALSE, TRUE, TRUE)

\* [pos.x, pos.y]: the array the mouse-down handler starts a stroke with
FirstPoints == 2

DrawTools == {"pencil", "select"}

NoStroke ==
    [op |-> "init", id |-> NullId, open |-> FALSE, first |-> 0,
     appended |-> 0, pastLen |-> 0, mixed |-> FALSE]

DrawStart ==
    /\ st = UR_init(initialState)
    /\ nextId = 1
    /\ rafq = <<>>
    /\ slast = NoStroke
    /\ steps = 0

DrawInit ==
    /\ HistIdle
    /\ DrawStart
    /\ ChunkStart
    /\ AttachIdle
    /\ BatchStart
    /\ GeomIdle

DrawStep ==
    /\ steps < MaxDrawSteps
    /\ steps' = steps + 1
    /\ UNCHANGED <<rafq, histVars, chunkVars, batchVars, geomVars, attachVars>>

\* a change of view or tool made while the stroke is in progress
Interleaved(op) ==
    slast' = [slast EXCEPT !.op = op,
                           !.mixed = slast.mixed
                                     \/ (slast.open /\ slast.appended >= 1)]

DAddDrawingLine ==
    /\ nextId <= MaxIds
    /\ st' = StoreSet(st, addDrawingLine_u(st.present, FirstPoints, nextId),
                      FALSE)
    /\ nextId' = nextId + 1
    /\ slast' = [op |-> "addDrawingLine", id |-> nextId, open |-> TRUE,
                 first |-> FirstPoints, appended |-> 0,
                 pastLen |-> Len(st'.past), mixed |-> FALSE]
    /\ DrawStep

\* a mouse move of the stroke: newPoints = [...points, pos.x, pos.y]
DUpdateDrawingLine ==
    /\ slast.open
    /\ LET el == ElementWithId(st.present.elements, slast.id)
       IN  st' = StoreSet(st, updateDrawingLine_u(st.present, slast.id,
                                                  el.points + 2), FALSE)
    /\ slast' = [slast EXCEPT !.op = "updateDrawingLine",
                              !.appended = slast.appended + 1]
    /\ UNCHANGED nextId
    /\ DrawStep

DSetPan ==
    /\ \E pan \in PanInputs :
        st' = StoreSet(st, setPan_u(st.present, pan), TRUE)
    /\ Interleaved("setPan")
    /\ UNCHANGED nextId
    /\ DrawStep

DSetZoom ==
    /\ \E zoom \in ZoomInputs :
        st' = StoreSet(st, setZoom_u(st.present, zoom), TRUE)
    /\ Interleaved("setZoom")
    /\ UNCHANGED nextId
    /\ DrawStep

DSetTool ==
    /\ \E tool \in DrawTools :
        st' = StoreSet(st, setTool_u(st.present, tool), TRUE)
    /\ Interleaved("setTool")
    /\ UNCHANGED nextId
    /\ DrawStep

\* undo ends the stroke; op is "undo" for the undo that ends it
DUndo ==
    /\ st' = UR_undo(st)
    /\ slast' = [slast EXCEPT !.op = IF slast.open THEN "undo" ELSE "undoMore",
                              !.open = FALSE]
    /\ UNCHANGED nextId
    /\ DrawStep

DrawNext ==
    \/ DAddDrawingLine \/ DUpdateDrawingLine \/ DSetPan \/ DSetZoom
    \/ DSetTool \/ DUndo

SpecDraw == DrawInit /\ [][DrawNext]_vars

(***************************************************************************)
(* ChunkedProcessor and processBulkTransform                               *)
(*                                                                         *)
(* Elements are numbered 1..n in input order; the {id, updates} pair the   *)
(* geometry kernel returns for element k is written k.  A run executes     *)
(* without interruption from its start, or from a resumption, to its next  *)
(* await (the setTimeout yield) or to its end.  Whether a chunk boundary   *)
(* yields depends on the time elapsed (> 16 ms since the last yield), so   *)
(* any boundary but the last may or may not yield.                         *)
(***************************************************************************)
\* const SYNC_THRESHOLD = 100
SYNC_THRESHOLD == 100

\* Math.min(75, Math.max(25, Math.floor(elements.length / 10)))
CHUNK_SIZE(n) == Min(75, Max(25, n \div 10))

\* element counts processBulkTransform is called with
BulkSizes == {2, SYNC_THRESHOLD, SYNC_THRESHOLD + 1}

ChunkResults_dropLast(n, i, chunkSize) ==
    [k \in 1..(Min(i + chunkSize, n) - i - 1) |-> i + k]

\* items.slice(i, i + chunkSize).map(processor): the results for the
\* elements at offsets i .. i + chunkSize - 1
ChunkResults(n, i, chunkSize) ==
    [k \in 1..(Min(i + chunkSize, n) - i) |-> i + k]

RunChunks_firstOnly(n, i, chunkSize, m) == ChunkResults(n, i, chunkSize)

\* the results of m consecutive loop iterations starting at offset i
RECURSIVE RunChunks(_, _, _, _)
RunChunks(n, i, chunkSize, m) ==
    IF m = 0 THEN <<>>
    ELSE ChunkResults(n, i, chunkSize)
            \o RunChunks(n, i + chunkSize, chunkSize, m - 1)

\* loop iterations left from offset i
ChunksLeft(n, i, chunkSize) == (n - i + chunkSize - 1) \div chunkSize

\* elements.map(element => calculateElementTransform(...))
SyncResults(n) == [k \in 1..n |-> k]

\* A run record.  status: "suspended" (awaiting the setTimeout), "resolved",
\* "busy" (rejected: already processing), "cancelled" (rejected: cancelled).
\* i: the offset of the chunk processed last.  The observer fields: yields
\* counts the awaits taken; cancelSeen / iAtCancel record a cancel() made
\* while the run was suspended; fallback marks the call made by the catch
\* block of handleMultiTransformEnd.
NewRun(n, status, i, results, yields) ==
    [n |-> n, chunkSize |-> CHUNK_SIZE(n), status |-> status, i |-> i,
     results |-> results, yields |-> yields, cancelSeen |-> FALSE,
     iAtCancel |-> 0, fallback |-> FALSE]

\* the loop from offset i for m iterations: it ends the run when they are
\* the last ones, and awaits after them otherwise
Advance(r, i, m) ==
    LET res == r.results \o RunChunks(r.n, i, r.chunkSize, m)
        lastI == i + (m - 1) * r.chunkSize
    IN  IF m = ChunksLeft(r.n, i, r.chunkSize)
        THEN [r EXCEPT !.status = "resolved", !.i = lastI, !.results = res]
        ELSE [r EXCEPT !.status = "suspended", !.i = lastI, !.results = res,
                       !.yields = r.yields + 1]

AfterSegment_noFinally(r) ==
    [isProcessing |-> TRUE, cancelRequested |-> FALSE]

\* the finally block runs when the run ends
AfterSegment(r) ==
    IF r.status = "suspended"
    THEN [isProcessing |-> TRUE, cancelRequested |-> FALSE]
    ELSE [isProcessing |-> FALSE, cancelRequested |-> FALSE]

\* processBulkTransform(elements, transform, center) with n elements, the
\* processor being in state c: the call as it stands at its first await or
\* at its end, and the processor after it
CallOutcomes(n, c) ==
    IF n <= SYNC_THRESHOLD
    THEN {[run |-> NewRun(n, "resolved", 0, SyncResults(n), 0), cp |-> c]}
    ELSE IF c.isProcessing
    THEN {[run |-> NewRun(n, "busy", 0, <<>>, 0), cp |-> c]}
    ELSE {[run |-> Advance(NewRun(n, "suspended", 0, <<>>, 0), 0, m),
           cp |-> AfterSegment(Advance(NewRun(n, "suspended", 0, <<>>, 0), 0, m))] :
            m \in 1..ChunksLeft(n, 0, CHUNK_SIZE(n))}

\* the setTimeout of the suspended run r fires: i += chunkSize, then the
\* loop, to the next await or to the end
ResumeOutcomes(r, c) ==
    IF c.cancelRequested
    THEN {[run |-> [r EXCEPT !.status = "cancelled"],
           cp |-> [isProcessing |-> FALSE, cancelRequested |-> FALSE]]}
    ELSE {[run |-> Advance(r, r.i + r.chunkSize, m),
           cp |-> IF Advance(r, r.i + r.chunkSize, m).status = "suspended"
                  THEN c
                  ELSE AfterSegment(Advance(r, r.i + r.chunkSize, m))] :
            m \in 1..ChunksLeft(r.n, r.i + r.chunkSize, r.chunkSize)}

\* processBulkTransform called by some caller
PBulkTransform ==
    /\ Len(runs) < MaxRuns
    /\ \E n \in BulkSizes : \E o \in CallOutcomes(n, cp) :
        /\ runs' = Append(runs, o.run)
        /\ cp' = o.cp
    /\ UNCHANGED <<histVars, storeVars, batchVars, geomVars, attachVars>>

\* the setTimeout of a suspended run fires
PResume ==
    /\ \E k \in 1..Len(runs) :
        /\ runs[k].status = "suspended"
        /\ \E o \in ResumeOutcomes(runs[k], cp) :
            /\ runs' = [runs EXCEPT ![k] = o.run]
            /\ cp' = o.cp
    /\ UNCHANGED <<histVars, storeVars, batchVars, geomVars, attachVars>>

\* cancel()
PCancel ==
    /\ cp' = [isProcessing |-> FALSE, cancelRequested |-> TRUE]
    /\ runs' = [k \in 1..Len(runs) |->
                    IF runs[k].status = "suspended" /\ ~runs[k].cancelSeen
                    THEN [runs[k] EXCEPT !.cancelSeen = TRUE,
                                         !.iAtCancel = runs[k].i]
                    ELSE runs[k]]
    /\ UNCHANGED <<histVars, storeVars, batchVars, geomVars, attachVars>>

ChunkNext == PBulkTransform \/ PResume \/ PCancel

SpecChunk == StoreInit /\ [][ChunkNext]_vars

\* The processor callback throws inside the try block: the rejection
\* leaves through the finally block.  status "failed".
\* processInChunks is called and the processor throws in the first chunk
PThrowAtCall ==
    /\ Len(runs) < MaxRuns
    /\ ~cp.isProcessing
    /\ runs' = Append(runs, NewRun(SYNC_THRESHOLD + 1, "failed", 0, <<>>, 0))
    /\ cp' = [isProcessing |-> FALSE, cancelRequested |-> FALSE]
    /\ UNCHANGED <<histVars, storeVars, batchVars, geomVars, attachVars>>

\* the setTimeout of a suspended run fires, no cancel is pending, and the
\* processor throws in the next chunk
PThrowAtResume ==
    /\ \E k \in 1..Len(runs) :
        /\ runs[k].status = "suspended"
        /\ ~cp.cancelRequested
        /\ runs' = [runs EXCEPT ![k] = [runs[k] EXCEPT !.status = "failed"]]
    /\ cp' = [isProcessing |-> FALSE, cancelRequested |-> FALSE]
    /\ UNCHANGED <<histVars, storeVars, batchVars, geomVars, attachVars>>

ChunkThrowNext == ChunkNext \/ PThrowAtCall \/ PThrowAtResume

SpecChunkThrow == StoreInit /\ [][ChunkThrowNext]_vars

(***************************************************************************)
(* IEEE-754 double arithmetic near small numbers                           *)
(*                                                                         *)
(* A number is written [a, n] and stands for a/2 + n * 2^-54: a counts     *)
(* halves and n counts quarters of the spacing of the doubles in [1, 2).   *)
(* n stays far below 2^52, so for a # 0 the binade of the number is that   *)
(* of a/2, one lower when a/2 is a power of two and n pulls below it.  A   *)
(* number with a = 0 is a small multiple of 2^-54 and is a double as it    *)
(* is.  Sums and differences are rounded to the nearest double, ties to    *)
(* the even mantissa, as the JavaScript operators + and - do; halving is   *)
(* exact.                                                                  *)
(***************************************************************************)
Num(a, n) == [a |-> a, n |-> n]

NumZero == Num(0, 0)


\* v < w, v <= w
Less(v, w) == v.a < w.a \/ (v.a = w.a /\ v.n < w.n)
LessEq(v, w) == v = w \/ Less(v, w)


RECURSIVE Pow2(_)
Pow2(k) == IF k = 0 THEN 1 ELSE 2 * Pow2(k - 1)

\* the largest k with 2^k <= a, for a >= 1
RECURSIVE FloorLog2(_)
FloorLog2(a) == IF a < 2 THEN 0 ELSE 1 + FloorLog2(a \div 2)

\* the spacing of the doubles around a/2 + n * 2^-54 for a > 0, counted in
\* units of 2^-54
Spacing(a, n) ==
    LET k == FloorLog2(a)
    IN  IF n < 0 /\ a = Pow2(k) THEN Pow2(k) ELSE 2 * Pow2(k)

\* n rounded to the nearest multiple of g, a tie to the even multiple
RoundToMultiple(n, g) ==
    LET r == n % g
        lower == n - r
    IN  IF 2 * r < g THEN lower
        ELSE IF 2 * r > g THEN lower + g
        ELSE IF (lower \div g) % 2 = 0 THEN lower ELSE lower + g

\* the double nearest to the real number v
RoundNear(v) ==
    IF v.a = 0 THEN v
    ELSE IF v.a > 0
    THEN Num(v.a, RoundToMultiple(v.n, Spacing(v.a, v.n)))
    ELSE Num(v.a, 0 - RoundToMultiple(0 - v.n, Spacing(0 - v.a, 0 - v.n)))

\* v + w, v - w, v / 2
Plus(v, w) == RoundNear(Num(v.a + w.a, v.n + w.n))
Minus(v, w) == RoundNear(Num(v.a - w.a, v.n - w.n))
Halved(v) == Num(v.a \div 2, v.n \div 2)

(***************************************************************************)
(* flipHorizontally                                                        *)
(*                                                                         *)
(* geo.els holds the selected elements, the ones flipHorizontally reads    *)
(* and updateMultipleElements then writes; their coordinates are doubles.  *)
(* A points array is x0, y0, x1, y1, ...                                   *)
(***************************************************************************)
\* JavaScript truthiness of an optional number field
HasNum(el, key) == key \in DOMAIN el /\ el[key] # NumZero

\* element.width || (element.radius ? element.radius * 2 : 0)
\*               || (element.radiusX ? element.radiusX * 2 : 0) || 100
RegularWidth(el) ==
    IF HasNum(el, "width") THEN el.width
    ELSE IF HasNum(el, "radius") THEN Num(2 * el.radius.a, 2 * el.radius.n)
    ELSE IF HasNum(el, "radiusX") THEN Num(2 * el.radiusX.a, 2 * el.radiusX.n)
    ELSE Num(200, 0)

\* element.width || 200
TextWidth(el) == IF HasNum(el, "width") THEN el.width ELSE Num(400, 0)

\* the x coordinates of a points array
PointXs(points) == {points[i] : i \in {j \in 1..Len(points) : j % 2 = 1}}

\* the values an element passes to Math.min(minX, .) and Math.max(maxX, .)
LeftCandidates(el) ==
    IF el.type = "drawing" /\ "points" \in DOMAIN el THEN PointXs(el.points)
    ELSE IF el.type = "line" /\ "x2" \in DOMAIN el THEN {el.x, el.x2}
    ELSE {el.x}

RightCandidates(el) ==
    IF el.type = "drawing" /\ "points" \in DOMAIN el THEN PointXs(el.points)
    ELSE IF el.type = "line" /\ "x2" \in DOMAIN el THEN {el.x, el.x2}
    ELSE IF el.type = "text" THEN {Plus(el.x, TextWidth(el))}
    ELSE {Plus(el.x, RegularWidth(el))}

LeastOf(S) == CHOOSE v \in S : \A w \in S : LessEq(v, w)
GreatestOf(S) == CHOOSE v \in S : \A w \in S : LessEq(w, v)

\* const centerX = (minX + maxX) / 2
CenterX(selectedElements) ==
    LET minX == LeastOf(UNION {LeftCandidates(selectedElements[i]) :
                                    i \in 1..Len(selectedElements)})
        maxX == GreatestOf(UNION {RightCandidates(selectedElements[i]) :
                                    i \in 1..Len(selectedElements)})
    IN  Halved(Plus(minX, maxX))

\* centerX + (centerX - x)
Mirrored(centerX, x) == Plus(centerX, Minus(centerX, x))

\* the update flipHorizontally computes for one element
FlipUpdate(el, centerX) ==
    IF el.type = "drawing" /\ "points" \in DOMAIN el
    THEN [points |-> [i \in 1..Len(el.points) |->
                        IF i % 2 = 1 THEN Mirrored(centerX, el.points[i])
                        ELSE el.points[i]]]
    ELSE IF el.type = "line" /\ "x2" \in DOMAIN el /\ "y2" \in DOMAIN el
    THEN [x |-> Mirrored(centerX, el.x), x2 |-> Mirrored(centerX, el.x2)]
    ELSE IF el.type = "text"
    THEN [x |-> Mirrored(centerX, Plus(el.x, TextWidth(el)))]
    ELSE [x |-> Mirrored(centerX, Plus(el.x, RegularWidth(el)))]

\* flipHorizontally followed by the updateMultipleElements it calls
FlipHorizontally(selectedElements) ==
    LET centerX == CenterX(selectedElements)
    IN  [i \in 1..Len(selectedElements) |->
            LET el == selectedElements[i]
                update == FlipUpdate(el, centerX)
            IN  IF ShallowEqual(update, el) THEN el ELSE Merge(el, update)]

\* coordinates the flips are tried on: 1, 1 + 2^-52, 2, 3 + 2^-51
FlipNums == {Num(2, 0), Num(2, 4), Num(4, 0), Num(6, 8)}

FlipElements ==
    {[type |-> "drawing", x |-> NumZero, y |-> NumZero,
      points |-> <<a, NumZero, b, NumZero>>] : a, b \in FlipNums}
    \cup {[type |-> "line", x |-> a, y |-> NumZero, x2 |-> b, y2 |-> NumZero] :
            a, b \in FlipNums}
    \cup {[type |-> "rect", x |-> a, y |-> NumZero, width |-> b] :
            a, b \in FlipNums}
    \cup {[type |-> "circle", x |-> a, y |-> NumZero, radius |-> b] :
            a, b \in FlipNums}
    \cup {[type |-> "text", x |-> a, y |-> NumZero] : a \in FlipNums}

\* selections of one or two elements
FlipSelections ==
    {<<e>> : e \in FlipElements} \cup (FlipElements \X FlipElements)

FlipInit ==
    /\ HistIdle
    /\ StoreStart
    /\ ChunkStart
    /\ AttachIdle
    /\ BatchStart
    /\ \E sel \in FlipSelections :
        geo = [phase |-> "flip", els |-> sel, orig |-> sel, flips |-> 0]

\* flipHorizontally() with the selection unchanged
GFlipHorizontally ==
    /\ geo.phase = "flip"
    /\ geo.flips < MaxFlips
    /\ geo' = [geo EXCEPT !.els = FlipHorizontally(geo.els),
                          !.flips = geo.flips + 1]
    /\ UNCHANGED <<histVars, storeVars, chunkVars, batchVars, attachVars>>

FlipNext == GFlipHorizontally

SpecFlip == FlipInit /\ [][FlipNext]_vars

(***************************************************************************)
(* Geometry kernel: calculateElementTransform                              *)
(*                                                                         *)
(* Coordinates, sizes, scale factors and angles (in degrees) are dyadic    *)
(* numbers written as integers counting 1/GU; on such numbers the          *)
(* products, sums and halvings of the kernel are exact in doubles.  The    *)
(* cosine and sine are taken at multiples of 90 degrees, where they are    *)
(* 0, 1 or -1 (Math.cos and Math.sin return them within 1e-16).            *)
(***************************************************************************)
\* the number 1
GU == 64

Abs(v) == IF v < 0 THEN 0 - v ELSE v

Times_left(a, b) == a

\* a * b
Times(a, b) == (a * b) \div GU

\* JavaScript a % m: the remainder has the sign of a
JSRem(a, m) == IF a >= 0 THEN a % m ELSE 0 - ((0 - a) % m)

\* Math.cos / Math.sin of rotation * (Math.PI / 180)
Cos(rotation) ==
    LET d == (rotation \div GU) % 360
    IN  IF d = 0 THEN GU ELSE IF d = 180 THEN 0 - GU ELSE 0

Sin(rotation) ==
    LET d == (rotation \div GU) % 360
    IN  IF d = 90 THEN GU ELSE IF d = 270 THEN 0 - GU ELSE 0

\* Math.abs(transform.rotation) > 0.001
Rotates(transform) == Abs(transform.rotation) * 1000 > GU

\* element[key] || fallback
OrElse(el, key, fallback) ==
    IF key \in DOMAIN el /\ el[key] # 0 THEN el[key] ELSE fallback

\* the point (x, y) scaled by the transform and then rotated by it
ScaleRotate(x, y, transform) ==
    LET sx == Times(x, transform.scaleX)
        sy == Times(y, transform.scaleY)
    IN  IF Rotates(transform)
        THEN [x |-> Times(sx, Cos(transform.rotation))
                      - Times(sy, Sin(transform.rotation)),
              y |-> Times(sx, Sin(transform.rotation))
                      + Times(sy, Cos(transform.rotation))]
        ELSE [x |-> sx, y |-> sy]

\* Math.max(0.5, (element.strokeWidth || 2)
\*                 * Math.max(transform.scaleX, transform.scaleY))
NewStrokeWidth(element, transform) ==
    Max(GU \div 2, Times(OrElse(element, "strokeWidth", 2 * GU),
                         Max(transform.scaleX, transform.scaleY)))

\* normalizeRotation(rotation)
normalizeRotation(rotation) ==
    LET r1 == JSRem(rotation, 360 * GU)
        r2 == IF r1 > 180 * GU THEN r1 - 360 * GU ELSE r1
    IN  IF r2 < 0 - 180 * GU THEN r2 + 360 * GU ELSE r2

\* the values at the even / odd offsets of a points array
CoordsAt(points, parity) ==
    {points[i] : i \in {j \in 1..Len(points) : j % 2 = parity}}

\* the updates for a drawing with a non-empty points array
DrawingUpdates(element, transform, center) ==
    LET xs == CoordsAt(element.points, 1)
        ys == CoordsAt(element.points, 0)
        minX == CHOOSE v \in xs : \A w \in xs : v <= w
        maxX == CHOOSE v \in xs : \A w \in xs : v >= w
        minY == CHOOSE v \in ys : \A w \in ys : v <= w
        maxY == CHOOSE v \in ys : \A w \in ys : v >= w
        drawingCenterX == (minX + maxX) \div 2
        drawingCenterY == (minY + maxY) \div 2
        newRelative == ScaleRotate(drawingCenterX - center.x,
                                   drawingCenterY - center.y, transform)
        offsetX == (center.x + newRelative.x) - drawingCenterX
        offsetY == (center.y + newRelative.y) - drawingCenterY
        P(i) == ScaleRotate(element.points[2 * i - 1] - drawingCenterX,
                            element.points[2 * i] - drawingCenterY, transform)
    IN  [points |-> [j \in 1..Len(element.points) |->
                        IF j % 2 = 1
                        THEN drawingCenterX + P((j + 1) \div 2).x + offsetX
                        ELSE drawingCenterY + P(j \div 2).y + offsetY],
         strokeWidth |-> NewStrokeWidth(element, transform)]

\* the updates for a line with x2 and y2
LineUpdates(element, transform, center) ==
    LET lineCenterX == (element.x + element.x2) \div 2
        lineCenterY == (element.y + element.y2) \div 2
        newRelative == ScaleRotate(lineCenterX - center.x,
                                   lineCenterY - center.y, transform)
        offsetX == (center.x + newRelative.x) - lineCenterX
        offsetY == (center.y + newRelative.y) - lineCenterY
        p1 == ScaleRotate(element.x - lineCenterX, element.y - lineCenterY,
                          transform)
        p2 == ScaleRotate(element.x2 - lineCenterX, element.y2 - lineCenterY,
                          transform)
    IN  [x |-> lineCenterX + p1.x + offsetX,
         y |-> lineCenterY + p1.y + offsetY,
         x2 |-> lineCenterX + p2.x + offsetX,
         y2 |-> lineCenterY + p2.y + offsetY,
         strokeWidth |-> NewStrokeWidth(element, transform)]

\* the updates for every other element
ShapeUpdates(element, transform, center) ==
    LET elementWidth ==
            OrElse(element, "width",
                IF OrElse(element, "radius", 0) # 0 THEN 2 * element.radius
                ELSE IF OrElse(element, "radiusX", 0) # 0
                THEN 2 * element.radiusX ELSE 100 * GU)
        elementHeight ==
            OrElse(element, "height",
                IF OrElse(element, "radius", 0) # 0 THEN 2 * element.radius
                ELSE IF OrElse(element, "radiusY", 0) # 0
                THEN 2 * element.radiusY ELSE 100 * GU)
        elementCenterX == element.x + (elementWidth \div 2)
        elementCenterY == element.y + (elementHeight \div 2)
        newRelative == ScaleRotate(elementCenterX - center.x,
                                   elementCenterY - center.y, transform)
        newCenterX == center.x + newRelative.x
        newCenterY == center.y + newRelative.y
        newElementWidth == Times(elementWidth, transform.scaleX)
        newElementHeight == Times(elementHeight, transform.scaleY)
        elementUpdates ==
            [x |-> newCenterX - (newElementWidth \div 2),
             y |-> newCenterY - (newElementHeight \div 2),
             rotation |-> normalizeRotation(OrElse(element, "rotation", 0)
                                            + transform.rotation)]
    IN  IF element.type = "rect"
        THEN Merge(elementUpdates,
                [width |-> Max(GU, Times(OrElse(element, "width", 100 * GU),
                                         transform.scaleX)),
                 height |-> Max(GU, Times(OrElse(element, "height", 100 * GU),
                                          transform.scaleY))])
        ELSE IF element.type = "circle"
        THEN Merge(elementUpdates,
                [radius |-> Max(GU, Times(OrElse(element, "radius", 50 * GU),
                                Max(transform.scaleX, transform.scaleY)))])
        ELSE IF element.type = "ellipse"
        THEN Merge(elementUpdates,
                [radiusX |-> Max(GU, Times(OrElse(element, "radiusX", 50 * GU),
                                           transform.scaleX)),
                 radiusY |-> Max(GU, Times(OrElse(element, "radiusY", 30 * GU),
                                           transform.scaleY))])
        ELSE elementUpdates

\* calculateElementTransform(element, transform, center)
calculateElementTransform(element, transform, center) ==
    [id |-> element.id,
     updates |->
        IF element.type = "drawing" /\ "points" \in DOMAIN element
        THEN IF Len(element.points) = 0
             THEN [points |-> <<>>,
                   strokeWidth |-> NewStrokeWidth(element, transform)]
             ELSE DrawingUpdates(element, transform, center)
        ELSE IF element.type = "line"
                /\ "x2" \in DOMAIN element /\ "y2" \in DOMAIN element
        THEN LineUpdates(element, transform, center)
        ELSE ShapeUpdates(element, transform, center)]

\* ---- the kernel applied to drawn inputs --------------------------------
\* coordinates, sizes and stored rotations the kernel is tried on
GeomXs == {0, 10 * GU}
GeomSizes == {0, GU \div 2, 20 * GU}
GeomRotations == {0, 270 * GU, (0 - 90) * GU}
GeomStrokes == {0, 2 * GU}

\* the rect of the group-transform scenario: at (100, 100), 120 by 80
ScenarioRect ==
    [id |-> 1, type |-> "rect", x |-> 100 * GU, y |-> 100 * GU,
     width |-> 120 * GU, height |-> 80 * GU]

\* its own center, the pivot of the scenario
ScenarioCenter == [x |-> 160 * GU, y |-> 140 * GU]

\* {scaleX: 2, scaleY: 1, rotation: 0}
ScenarioTransform == [scaleX |-> 2 * GU, scaleY |-> GU, rotation |-> 0]

GeomElements ==
    {ScenarioRect}
    \cup {[id |-> 1, type |-> "rect", x |-> x, y |-> 0, width |-> w,
      height |-> 10 * GU, rotation |-> r] :
        x \in GeomXs, w \in GeomSizes, r \in GeomRotations}
    \cup {[id |-> 1, type |-> "rect", x |-> x, y |-> 0, height |-> 10 * GU] :
        x \in GeomXs}
    \cup {[id |-> 1, type |-> "circle", x |-> x, y |-> 0, radius |-> w] :
        x \in GeomXs, w \in GeomSizes}
    \cup {[id |-> 1, type |-> "ellipse", x |-> x, y |-> 0, radiusX |-> w,
           radiusY |-> 4 * GU] : x \in GeomXs, w \in GeomSizes}
    \cup {[id |-> 1, type |-> "line", x |-> x, y |-> 0, x2 |-> 6 * GU,
           y2 |-> 4 * GU, strokeWidth |-> sw] :
        x \in GeomXs, sw \in GeomStrokes}
    \cup {[id |-> 1, type |-> "drawing", x |-> 0, y |-> 0,
           points |-> <<x, 0, 6 * GU, 4 * GU, 2 * GU, 8 * GU>>,
           strokeWidth |-> sw] : x \in GeomXs, sw \in GeomStrokes}
    \cup {[id |-> 1, type |-> "text", x |-> x, y |-> 0] : x \in GeomXs}
    \cup {[id |-> 1, type |-> "path", x |-> x, y |-> 0] : x \in GeomXs}
    \cup {[id |-> 1, type |-> "path", x |-> x, y |-> 0,
           path |-> [points |-> <<[x |-> 0, y |-> 0],
                                  [x |-> 6 * GU, y |-> 4 * GU]>>]] :
            x \in GeomXs}

GeomScales == {GU \div 2, GU, 2 * GU}
GeomAngles == {0, 90 * GU, (0 - 90) * GU, 180 * GU}

GeomTransforms ==
    [scaleX : GeomScales, scaleY : GeomScales, rotation : GeomAngles]

GeomCenters ==
    {[x |-> 0, y |-> 0], [x |-> 16 * GU, y |-> 8 * GU], ScenarioCenter}

IdentityTransform == [scaleX |-> GU, scaleY |-> GU, rotation |-> 0]

\* {1 / scaleX, 1 / scaleY, -rotation}
InverseTransform(transform) ==
    [scaleX |-> (GU * GU) \div transform.scaleX,
     scaleY |-> (GU * GU) \div transform.scaleY,
     rotation |-> 0 - transform.rotation]

GeomInit ==
    /\ HistIdle
    /\ StoreStart
    /\ ChunkStart
    /\ AttachIdle
    /\ BatchStart
    /\ \E element \in GeomElements, transform \in GeomTransforms,
          center \in GeomCenters :
        geo = [phase |-> "kernel", element |-> element,
               transform |-> transform, center |-> center,
               current |-> element, applied |-> 0]

\* the element with the updates of one kernel call merged into it
Transformed(element, transform, center) ==
    Merge(element, calculateElementTransform(element, transform, center).updates)

\* calculateElementTransform with the transform, its updates applied
GTransform ==
    /\ geo.phase = "kernel" /\ geo.applied = 0
    /\ geo' = [geo EXCEPT
                 !.current = Transformed(geo.current, geo.transform, geo.center),
                 !.applied = 1]
    /\ UNCHANGED <<histVars, storeVars, chunkVars, batchVars, attachVars>>

\* calculateElementTransform with the inverse transform on the result
GInverse ==
    /\ geo.phase = "kernel" /\ geo.applied = 1
    /\ geo' = [geo EXCEPT
                 !.current = Transformed(geo.current,
                                InverseTransform(geo.transform), geo.center),
                 !.applied = 2]
    /\ UNCHANGED <<histVars, storeVars, chunkVars, batchVars, attachVars>>

GeomNext == GTransform \/ GInverse

SpecGeom == GeomInit /\ [][GeomNext]_vars

(***************************************************************************)
(* getElementsInRectangle                                                  *)
(*                                                                         *)
(* Coordinates are whole pixels.  An element carries the keys the          *)
(* JavaScript object has; a path's points are records [x, y] relative to   *)
(* the anchor, a drawing's points a flat sequence x, y, x, y, ...          *)
(***************************************************************************)
\* Math.min(...values), Math.max(...values) of a non-empty set
LeastIn(values) == CHOOSE v \in values : \A w \in values : v <= w
GreatestIn(values) == CHOOSE v \in values : \A w \in values : v >= w

\* elementMinX, elementMaxX, elementMinY, elementMaxY of the filter callback
ElementBounds(element) ==
    LET point == [minX |-> element.x, maxX |-> element.x,
                  minY |-> element.y, maxY |-> element.y]
    IN  IF element.type = "rect"
        THEN [minX |-> element.x,
              maxX |-> element.x + OrElse(element, "width", 100),
              minY |-> element.y,
              maxY |-> element.y + OrElse(element, "height", 100)]
        ELSE IF element.type = "circle"
        THEN LET radius == OrElse(element, "radius", 50)
             IN  [minX |-> element.x - radius, maxX |-> element.x + radius,
                  minY |-> element.y - radius, maxY |-> element.y + radius]
        ELSE IF element.type = "ellipse"
        THEN LET rx == OrElse(element, "radiusX", 50)
                 ry == OrElse(element, "radiusY", 30)
             IN  [minX |-> element.x - rx, maxX |-> element.x + rx,
                  minY |-> element.y - ry, maxY |-> element.y + ry]
        ELSE IF element.type = "path" /\ "path" \in DOMAIN element
        THEN LET points == element.path.points
                 xs == {element.x + points[k].x : k \in 1..Len(points)}
                 ys == {element.y + points[k].y : k \in 1..Len(points)}
             IN  IF Len(points) > 0
                 THEN [minX |-> LeastIn(xs), maxX |-> GreatestIn(xs),
                       minY |-> LeastIn(ys), maxY |-> GreatestIn(ys)]
                 ELSE point
        ELSE IF element.type = "drawing" /\ "points" \in DOMAIN element
        THEN IF Len(element.points) >= 2
             THEN [minX |-> LeastIn(CoordsAt(element.points, 1)),
                   maxX |-> GreatestIn(CoordsAt(element.points, 1)),
                   minY |-> LeastIn(CoordsAt(element.points, 0)),
                   maxY |-> GreatestIn(CoordsAt(element.points, 0))]
             ELSE point
        ELSE IF element.type = "line"
                /\ "x2" \in DOMAIN element /\ "y2" \in DOMAIN element
        THEN [minX |-> Min(element.x, element.x2),
              maxX |-> Max(element.x, element.x2),
              minY |-> Min(element.y, element.y2),
              maxY |-> Max(element.y, element.y2)]
        ELSE point

\* getElementsInRectangle(rectStart, rectEnd) over state.elements
getElementsInRectangle(elements, rectStart, rectEnd) ==
    LET minX == Min(rectStart.x, rectEnd.x)
        maxX == Max(rectStart.x, rectEnd.x)
        minY == Min(rectStart.y, rectEnd.y)
        maxY == Max(rectStart.y, rectEnd.y)
        Hit(element) ==
            LET b == ElementBounds(element)
            IN  ~(b.maxX < minX \/ b.minX > maxX
                    \/ b.maxY < minY \/ b.minY > maxY)
        kept == FilterSeq(elements, Hit)
    IN  [k \in 1..Len(kept) |-> kept[k].id]

\* ---- the query applied to drawn inputs -------------------------------
\* the circles of the scenario
CircleInside == [type |-> "circle", x |-> 25, y |-> 25, radius |-> 10]
CircleFarAway == [type |-> "circle", x |-> 1000, y |-> 1000, radius |-> 10]

\* shapes on the canvas, before they are given an id
RectShapes ==
    {CircleInside, CircleFarAway,
     [type |-> "circle", x |-> 0 - 20, y |-> 25, radius |-> 20],
     [type |-> "circle", x |-> 0 - 20, y |-> 25, radius |-> 10],
     [type |-> "ellipse", x |-> 0 - 20, y |-> 25, radiusX |-> 30,
      radiusY |-> 5],
     [type |-> "ellipse", x |-> 25, y |-> 70, radiusX |-> 30, radiusY |-> 5],
     [type |-> "line", x |-> 60, y |-> 60, x2 |-> 0 - 10, y2 |-> 40],
     [type |-> "line", x |-> 60, y |-> 60, x2 |-> 90, y2 |-> 40],
     [type |-> "drawing", x |-> 0, y |-> 0, points |-> <<60, 60, 70, 10>>],
     [type |-> "drawing", x |-> 0, y |-> 0, points |-> <<40, 60, 70, 10>>],
     [type |-> "path", x |-> 100, y |-> 100,
      path |-> [points |-> <<[x |-> 0, y |-> 0],
                             [x |-> 0 - 60, y |-> 0 - 60]>>]],
     [type |-> "path", x |-> 100, y |-> 100,
      path |-> [points |-> <<[x |-> 0, y |-> 0], [x |-> 20, y |-> 0]>>]]}
    \cup {[type |-> "rect", x |-> x, y |-> 10, width |-> w, height |-> 20] :
            x \in {0 - 60, 80}, w \in {0 - 40, 0, 20, 80}}

\* the element lists: one or two shapes, numbered in document order
RectElementLists ==
    {<<Merge(e, [id |-> 1])>> : e \in RectShapes}
    \cup {<<Merge(e, [id |-> 1]), Merge(CircleInside, [id |-> 2])>> :
            e \in RectShapes}

\* corners of the selection rectangle
RectCorners == [x : {0, 50}, y : {0, 50}]

RectInit ==
    /\ HistIdle
    /\ StoreStart
    /\ ChunkStart
    /\ AttachIdle
    /\ BatchStart
    /\ \E elements \in RectElementLists, a \in RectCorners, b \in RectCorners :
        geo = [phase |-> "rect", elements |-> elements, a |-> a, b |-> b,
               calls |-> 0, result |-> <<>>, swapped |-> <<>>]

\* getElementsInRectangle(a, b)
RQuery ==
    /\ geo.phase = "rect" /\ geo.calls = 0
    /\ geo' = [geo EXCEPT
                 !.result = getElementsInRectangle(geo.elements, geo.a, geo.b),
                 !.calls = 1]
    /\ UNCHANGED <<histVars, storeVars, chunkVars, batchVars, attachVars>>

\* getElementsInRectangle(b, a)
RQuerySwapped ==
    /\ geo.phase = "rect" /\ geo.calls = 1
    /\ geo' = [geo EXCEPT
                 !.swapped = getElementsInRectangle(geo.elements, geo.b, geo.a),
                 !.calls = 2]
    /\ UNCHANGED <<histVars, storeVars, chunkVars, batchVars, attachVars>>

RectNext == RQuery \/ RQuerySwapped

SpecRect == RectInit /\ [][RectNext]_vars

(***************************************************************************)
(* BatchUpdater                                                            *)
(*                                                                         *)
(* A callback is written [id, high]: id numbers the add() calls in the     *)
(* order they were made.  bhost is the host's side: the animation frames   *)
(* requested and not yet delivered or cancelled, and the timers pending.   *)
(* blast is what the last frame callback ran; the observer bobs collects   *)
(* the ids of the callbacks run so far and of those clear() discarded.     *)
(***************************************************************************)
\* if (currentUpdates.length > 100)
SUB_BATCH_THRESHOLD == 100

\* const batchSize = 50
BATCH_SIZE == 50

\* callbacks a caller enqueues in one task, one add() after the other
BurstSizes == {SUB_BATCH_THRESHOLD, SUB_BATCH_THRESHOLD + 1}

\* the slices the frame callback runs one after the other
SubBatches(currentUpdates) ==
    IF Len(currentUpdates) > SUB_BATCH_THRESHOLD
    THEN [k \in 1..((Len(currentUpdates) + BATCH_SIZE - 1) \div BATCH_SIZE) |->
            SubSeq(currentUpdates, BATCH_SIZE * (k - 1) + 1,
                   Min(BATCH_SIZE * k, Len(currentUpdates)))]
    ELSE IF Len(currentUpdates) > 0 THEN <<currentUpdates>>
    ELSE <<>>

RECURSIVE Flatten(_)
Flatten(batches) ==
    IF batches = <<>> THEN <<>> ELSE Head(batches) \o Flatten(Tail(batches))

\* the setTimeout(() => {}, 0) calls of the frame callback: one after every
\* slice but the last
YieldTimers(currentUpdates) ==
    IF Len(currentUpdates) > SUB_BATCH_THRESHOLD
    THEN Len(SubBatches(currentUpdates)) - 1
    ELSE 0

FlushOrder_normalFirst(currentHighPriorityUpdates, currentUpdates) ==
    currentUpdates \o currentHighPriorityUpdates

\* the order in which the frame callback runs what it took from the queues:
\* currentHighPriorityUpdates.forEach, then currentUpdates in slices
FlushOrder(currentHighPriorityUpdates, currentUpdates) ==
    currentHighPriorityUpdates \o Flatten(SubBatches(currentUpdates))

schedule_always(b, frames, id) ==
    [rafId |-> id, frames |-> frames \cup {id}]

\* schedule(): the rafId and the host's requested frames after it; id is
\* the id requestAnimationFrame would return
schedule(b, frames, id) ==
    IF b.rafId # NoFrame THEN [rafId |-> b.rafId, frames |-> frames]
    ELSE [rafId |-> id, frames |-> frames \cup {id}]

clear_keepQueues(b, frames) ==
    [bu |-> [b EXCEPT !.rafId = NoFrame], frames |-> frames \ {b.rafId}]

\* clear(): the updater and the host's requested frames after it
clear(b, frames) ==
    [bu |-> [updates |-> <<>>, highPriorityUpdates |-> <<>>,
             rafId |-> NoFrame],
     frames |-> IF b.rafId # NoFrame THEN frames \ {b.rafId} ELSE frames]

\* the ids of the callbacks in a queue
CallbackIds(queue) == {queue[k].id : k \in 1..Len(queue)}

add_noSchedule(b, frames, update) ==
    [bu |-> IF update.high
            THEN [b EXCEPT !.highPriorityUpdates = Append(@, update)]
            ELSE [b EXCEPT !.updates = Append(@, update)],
     frames |-> frames]

\* add(update, highPriority): the push, then schedule()
add(b, frames, update) ==
    LET queued == IF update.high
                  THEN [b EXCEPT !.highPriorityUpdates = Append(@, update)]
                  ELSE [b EXCEPT !.updates = Append(@, update)]
        s == schedule(queued, frames, update.id)
    IN  [bu |-> [queued EXCEPT !.rafId = s.rafId], frames |-> s.frames]

BAdd ==
    /\ bseq < MaxAdds
    /\ \E highPriority \in BOOLEAN :
        LET a == add(bu, bhost.frames,
                     [id |-> bseq + 1, high |-> highPriority])
        IN  /\ bu' = a.bu
            /\ bhost' = [bhost EXCEPT !.frames = a.frames]
    /\ bseq' = bseq + 1
    /\ UNCHANGED <<blast, bobs>>
    /\ UNCHANGED <<histVars, storeVars, chunkVars, geomVars, attachVars>>

\* n normal-priority add() calls made by one caller in one task
BAddBurst ==
    /\ bobs.bursts < MaxBursts
    /\ \E n \in BurstSizes :
        LET queued == [bu EXCEPT !.updates =
                          @ \o [k \in 1..n |-> [id |-> bseq + k, high |-> FALSE]]]
            s == schedule(queued, bhost.frames, bseq + 1)
        IN  /\ bu' = [queued EXCEPT !.rafId = s.rafId]
            /\ bhost' = [bhost EXCEPT !.frames = s.frames]
            /\ bseq' = bseq + n
    /\ bobs' = [bobs EXCEPT !.bursts = @ + 1]
    /\ blast' = blast
    /\ UNCHANGED <<histVars, storeVars, chunkVars, geomVars, attachVars>>

\* a requested animation frame fires: the whole frame callback, one host
\* task
BFlush ==
    /\ \E f \in bhost.frames :
        LET ran == FlushOrder(bu.highPriorityUpdates, bu.updates)
        IN  /\ blast' = ran
            /\ bu' = [updates |-> <<>>, highPriorityUpdates |-> <<>>,
                      rafId |-> NoFrame]
            /\ bhost' = [frames |-> bhost.frames \ {f},
                         timers |-> bhost.timers + YieldTimers(bu.updates)]
            /\ bobs' = [bobs EXCEPT !.executed = @ \cup CallbackIds(ran)]
    /\ bseq' = bseq
    /\ UNCHANGED <<histVars, storeVars, chunkVars, geomVars, attachVars>>

\* a timer set by setTimeout(() => {}, 0) fires: its callback is empty
BTimer ==
    /\ bhost.timers > 0
    /\ bhost' = [bhost EXCEPT !.timers = @ - 1]
    /\ UNCHANGED <<bu, bseq, blast, bobs>>
    /\ UNCHANGED <<histVars, storeVars, chunkVars, geomVars, attachVars>>

\* clear()
BClear ==
    /\ bu' = clear(bu, bhost.frames).bu
    /\ bhost' = [bhost EXCEPT !.frames = clear(bu, bhost.frames).frames]
    /\ bobs' = [bobs EXCEPT !.cleared = @ \cup CallbackIds(bu.updates)
                                          \cup CallbackIds(bu.highPriorityUpdates)]
    /\ UNCHANGED <<bseq, blast>>
    /\ UNCHANGED <<histVars, storeVars, chunkVars, geomVars, attachVars>>

BatchNext == BAdd \/ BAddBurst \/ BFlush \/ BTimer \/ BClear

SpecBatch == StoreInit /\ [][BatchNext]_vars

(***************************************************************************)
(* The effect of MultiSelectionGroup that attaches the nodes of the        *)
(* selected elements to the Transformer (MultiSelectionGroup.tsx 48-107).  *)
(* The effect runs when the selection changes, after the cleanup of the    *)
(* effect before it.  Whether stage.find locates every node of a selection *)
(* is the host's answer: either.                                           *)
(***************************************************************************)
\* const maxRetries = 5
MAX_RETRIES == 5

\* the timer the effect of selection g started with: timeoutId
InitialTimer(g) == [sel |-> g, retryCount |-> 0]

\* return () => clearTimeout(timeoutId): the cleanup of the effect that ran
\* for the selection t.sel
Cleanup(t) == IF t.multi THEN t.timers \ {InitialTimer(t.sel)} ELSE t.timers

\* the selection changes to another multi-selection: cleanup, then the
\* effect's first branch
ASelectMultiple ==
    /\ tr.sel < MaxSelections
    /\ tr' = [tr EXCEPT !.sel = tr.sel + 1,
                        !.multi = TRUE,
                        !.timers = Cleanup(tr) \cup {InitialTimer(tr.sel + 1)}]
    /\ UNCHANGED <<histVars, storeVars, chunkVars, batchVars, geomVars>>

\* the selection drops to one element or none: the Transformer is
\* unmounted (trRef.current becomes null), cleanup, and neither branch of
\* the effect runs
ASelectFew ==
    /\ tr.multi
    /\ tr' = [tr EXCEPT !.multi = FALSE, !.timers = Cleanup(tr), !.nodes = 0]
    /\ UNCHANGED <<histVars, storeVars, chunkVars, batchVars, geomVars>>

\* a timer fires: updateTransformer of the closure of selection t.sel;
\* if (trRef.current) holds while a multi-selection is shown
ATimer ==
    /\ \E t \in tr.timers : \E foundAll \in BOOLEAN :
        IF ~foundAll /\ t.retryCount < MAX_RETRIES
        THEN tr' = [tr EXCEPT !.timers =
                        (@ \ {t}) \cup {[t EXCEPT !.retryCount = @ + 1]}]
        ELSE IF tr.multi
        THEN tr' = [tr EXCEPT !.timers = @ \ {t},
                              !.nodes = t.sel,
                              !.attaches = @ + 1]
        ELSE tr' = [tr EXCEPT !.timers = @ \ {t}]
    /\ UNCHANGED <<histVars, storeVars, chunkVars, batchVars, geomVars>>

AttachNext == ASelectMultiple \/ ASelectFew \/ ATimer

SpecAttach == StoreInit /\ [][AttachNext]_vars

(***************************************************************************)
(* The BatchUpdater with callbacks that call add() themselves while the    *)
(* frame callback is running them.  The frame callback has emptied both    *)
(* queues and set rafId to null before it runs the first callback (lines   *)
(* 99-104), so an add() made by a callback pushes to the new queue and     *)
(* requests a new frame.  Here bobs logs, per callback id, the number of   *)
(* flushes started when it was enqueued (enq), how often it ran (times)    *)
(* and the flush that ran it (ranAt).                                      *)
(***************************************************************************)
BatchLogStart ==
    /\ bu = [updates |-> <<>>, highPriorityUpdates |-> <<>>, rafId |-> NoFrame]
    /\ bseq = 0
    /\ blast = <<>>
    /\ bhost = [frames |-> {}, timers |-> 0]
    /\ bobs = [cleared |-> {}, flushes |-> 0, enq |-> <<>>, times |-> <<>>,
               ranAt |-> <<>>]

BatchLogInit ==
    /\ HistIdle
    /\ StoreStart
    /\ ChunkStart
    /\ AttachIdle
    /\ BatchLogStart
    /\ GeomIdle

\* the log after one more callback is enqueued
Enqueued(o) ==
    [o EXCEPT !.enq = Append(@, o.flushes), !.times = Append(@, 0),
              !.ranAt = Append(@, 0)]

\* how often the callback id occurs in what a flush ran
Occurrences(ran, id) == Cardinality({k \in 1..Len(ran) : ran[k].id = id})

\* add(update, highPriority) called between frames
BEnqueue ==
    /\ bseq < MaxAdds
    /\ \E highPriority \in BOOLEAN :
        LET a == add(bu, bhost.frames,
                     [id |-> bseq + 1, high |-> highPriority])
        IN  /\ bu' = a.bu
            /\ bhost' = [bhost EXCEPT !.frames = a.frames]
    /\ bseq' = bseq + 1
    /\ bobs' = Enqueued(bobs)
    /\ blast' = blast
    /\ UNCHANGED <<histVars, storeVars, chunkVars, geomVars, attachVars>>

\* the add() calls the callbacks of a flush make, one after the other,
\* starting from the updater b with the host's frames
RECURSIVE Reentrant(_, _, _, _)
Reentrant(b, frames, firstId, priorities) ==
    IF priorities = <<>> THEN [bu |-> b, frames |-> frames]
    ELSE LET a == add(b, frames, [id |-> firstId, high |-> Head(priorities)])
         IN  Reentrant(a.bu, a.frames, firstId + 1, Tail(priorities))

\* the priorities of the add() calls the callbacks of one flush make: none,
\* one or two calls
ReentrantChoices ==
    {<<>>} \cup {<<h>> : h \in BOOLEAN}
           \cup {<<h1, h2>> : h1 \in BOOLEAN, h2 \in BOOLEAN}

\* a requested animation frame fires: the frame callback takes the queues,
\* empties them, clears rafId and runs the callbacks, which make the add()
\* calls of priorities
BFrame ==
    /\ \E f \in bhost.frames : \E priorities \in ReentrantChoices :
        LET ran == FlushOrder(bu.highPriorityUpdates, bu.updates)
            taken == [updates |-> <<>>, highPriorityUpdates |-> <<>>,
                      rafId |-> NoFrame]
            after == Reentrant(taken, bhost.frames \ {f}, bseq + 1, priorities)
            n == Len(priorities)
            started == [bobs EXCEPT
                          !.flushes = @ + 1,
                          !.times = [id \in 1..Len(@) |->
                                        @[id] + Occurrences(ran, id)],
                          !.ranAt = [id \in 1..Len(@) |->
                                        IF Occurrences(ran, id) > 0
                                        THEN bobs.flushes + 1 ELSE @[id]]]
        IN  /\ bseq + n <= MaxAdds
            /\ n > 0 => ran # <<>>
            /\ blast' = ran
            /\ bu' = after.bu
            /\ bhost' = [frames |-> after.frames,
                         timers |-> bhost.timers + YieldTimers(bu.updates)]
            /\ bseq' = bseq + n
            /\ bobs' = IF n = 0 THEN started
                       ELSE IF n = 1 THEN Enqueued(started)
                       ELSE Enqueued(Enqueued(started))
    /\ UNCHANGED <<histVars, storeVars, chunkVars, geomVars, attachVars>>

\* clear() called between frames
BDiscard ==
    /\ bu' = clear(bu, bhost.frames).bu
    /\ bhost' = [bhost EXCEPT !.frames = clear(bu, bhost.frames).frames]
    /\ bobs' = [bobs EXCEPT !.cleared = @ \cup CallbackIds(bu.updates)
                                          \cup CallbackIds(bu.highPriorityUpdates)]
    /\ UNCHANGED <<bseq, blast>>
    /\ UNCHANGED <<histVars, storeVars, chunkVars, geomVars, attachVars>>

BatchLogNext == BEnqueue \/ BFrame \/ BDiscard

\* animation frames keep firing: a requested frame is delivered
SpecBatchLog ==
    BatchLogInit /\ [][BatchLogNext]_vars /\ WF_vars(BFrame)

(***************************************************************************)
(* handleMultiTransformEnd (MultiSelectionGroup)                           *)
(*                                                                         *)
(* The handler awaits processBulkTransform; when the promise settles, its  *)
(* continuation (the batchUpdater.add, or the catch block with the second  *)
(* processBulkTransform call) runs in the same host task.  runs holds the  *)
(* processBulkTransform calls of the handlers, the call of a catch block   *)
(* marked fallback.                                                        *)
(***************************************************************************)
\* batchUpdater.add(() => onUpdateElements(updates), true) once the awaited
\* call has resolved; nothing while it is suspended or when it rejected
HandOver(run) ==
    IF run.status = "resolved"
    THEN LET a == add(bu, bhost.frames, [id |-> bseq + 1, high |-> TRUE])
         IN  /\ bu' = a.bu
             /\ bhost' = [bhost EXCEPT !.frames = a.frames]
             /\ bseq' = bseq + 1
             /\ UNCHANGED <<blast, bobs>>
    ELSE UNCHANGED batchVars

\* the awaited call stands as o, rs being the calls with o recorded: the
\* rest of the handler.  isFallback: the call was the one of the catch
\* block.  (No more than MaxRuns + 1 calls are explored.)
Settle(rs, n, o, isFallback) ==
    IF o.run.status \in {"busy", "cancelled"} /\ ~isFallback
    THEN \E f \in CallOutcomes(n, o.cp) :
            /\ Len(rs) <= MaxRuns
            /\ runs' = Append(rs, [f.run EXCEPT !.fallback = TRUE])
            /\ cp' = f.cp
            /\ HandOver(f.run)
    ELSE /\ runs' = rs
         /\ cp' = o.cp
         /\ HandOver(o.run)

\* handleMultiTransformEnd with n selected elements
MTransformEnd ==
    /\ Len(runs) < MaxRuns
    /\ \E n \in BulkSizes : \E o \in CallOutcomes(n, cp) :
        Settle(Append(runs, o.run), n, o, FALSE)
    /\ UNCHANGED <<histVars, storeVars, geomVars, attachVars>>

\* the setTimeout of a suspended call fires, and the handler awaiting the
\* call goes on when the call settles
MResume ==
    /\ \E k \in 1..Len(runs) :
        /\ runs[k].status = "suspended"
        /\ \E o \in ResumeOutcomes(runs[k], cp) :
            Settle([runs EXCEPT ![k] = o.run], runs[k].n, o, runs[k].fallback)
    /\ UNCHANGED <<histVars, storeVars, geomVars, attachVars>>

GestureNext == MTransformEnd \/ MResume \/ PCancel

SpecGesture == StoreInit /\ [][GestureNext]_vars

(***************************************************************************)
(* The generic engine driven by arbitrary calls.  The observer `last`      *)
(* records the call just made, from its arguments and the frame before it; *)
(* `cyc` follows a run "recorded sets, n undos, n redos".                   *)
(***************************************************************************)
\* How a setState call is classified from its arguments alone.
SetKind(refEq, skipHistory, filterOK, key) ==
    IF skipHistory \/ refEq THEN "skip"
    ELSE IF ~filterOK THEN "filtered"
    ELSE IF key = Null THEN "plain"
    ELSE "keyed"

\* What a recorded call that starts a history entry is expected to do to past.
ExpectPush(past, present) ==
    IF Len(past) < Limit THEN Append(past, present)
    ELSE Append(Tail(past), present)

\* The observer's record of a call.  op: the kind of call; key: the key
\* groupBy returned; pre: present before the call; prevOp: the kind of the
\* call before; rep: this and the previous call are recorded setStates with
\* the same non-null key; full: past held Limit entries before the call;
\* fresh: lastGroup differed from the key (or past was empty) before the call;
\* pushed / kept: what the call did to past; arg: the value passed to
\* setState (present before any other call); grp: lastGroup before the call;
\* prevGrp: lastGroup before the call before.
Observe(op, key, h, h2) ==
    [op |-> op, key |-> key, pre |-> h.present, prevOp |-> last.op,
     rep |-> (op = "keyed" /\ last.op = "keyed" /\ last.key = key),
     full |-> (op \in {"plain", "keyed"} /\ Len(h.past) = Limit),
     fresh |-> (op = "keyed" /\ (h.lastGroup # key \/ Len(h.past) = 0)),
     pushed |-> (op \in {"plain", "keyed"}
                 /\ h2.past = ExpectPush(h.past, h.present)),
     kept |-> (op \in {"plain", "keyed"} /\ h2.past = h.past),
     prevFresh |-> last.fresh, prevPushed |-> last.pushed,
     arg |-> h.present, grp |-> h.lastGroup, prevGrp |-> last.grp]

NoCall == [op |-> "init", key |-> Null, pre |-> 0, prevOp |-> "init",
           rep |-> FALSE, full |-> FALSE, fresh |-> FALSE, pushed |-> FALSE,
           kept |-> FALSE, prevFresh |-> FALSE, prevPushed |-> FALSE,
           arg |-> 0, grp |-> Null, prevGrp |-> Null]

CycOff == [phase |-> "off", k |-> 0, base |-> 0]

HistInit ==
    /\ hist = UR_init(0)
    /\ last = NoCall
    /\ cyc = [phase |-> "sets", k |-> 0, base |-> 0]
    /\ StoreStart
    /\ ChunkStart
    /\ AttachIdle
    /\ BatchStart
    /\ GeomIdle

CycAfterUndo ==
    IF cyc.phase \in {"sets", "undos"} /\ cyc.k < MaxRun
    THEN [cyc EXCEPT !.phase = "undos", !.k = cyc.k + 1]
    ELSE CycOff

CycAfterRedo ==
    IF cyc.phase \in {"undos", "redos"} /\ cyc.k > 0
    THEN [cyc EXCEPT !.phase = "redos", !.k = cyc.k - 1]
    ELSE CycOff

HSetState ==
    \E nextState \in Vals, skipHistory \in BOOLEAN, filterOK \in BOOLEAN,
       key \in GroupKeys :
        LET refEq == (nextState = hist.present)
            kind == SetKind(refEq, skipHistory, filterOK, key)
            h2 == UR_setState(hist, Limit, nextState, refEq, skipHistory,
                              filterOK, key)
        IN  /\ hist' = h2
            /\ last' = [Observe(kind, key, hist, h2) EXCEPT !.arg = nextState]
            /\ cyc' = IF kind = "plain"
                      THEN [phase |-> "sets", k |-> 0, base |-> nextState]
                      ELSE CycOff
            /\ UNCHANGED <<storeVars, chunkVars, batchVars, geomVars, attachVars>>

HUndo ==
    /\ hist' = UR_undo(hist)
    /\ last' = Observe(IF canUndo(hist) THEN "undo" ELSE "undoNoop", Null,
                       hist, UR_undo(hist))
    /\ cyc' = CycAfterUndo
    /\ UNCHANGED <<storeVars, chunkVars, batchVars, geomVars, attachVars>>

HRedo ==
    /\ hist' = UR_redo(hist)
    /\ last' = Observe(IF canRedo(hist) THEN "redo" ELSE "redoNoop", Null,
                       hist, UR_redo(hist))
    /\ cyc' = CycAfterRedo
    /\ UNCHANGED <<storeVars, chunkVars, batchVars, geomVars, attachVars>>

HClearHistory ==
    /\ hist' = UR_clearHistory(hist)
    /\ last' = Observe("clear", Null, hist, UR_clearHistory(hist))
    /\ cyc' = CycOff
    /\ UNCHANGED <<storeVars, chunkVars, batchVars, geomVars, attachVars>>

HistNext == HSetState \/ HUndo \/ HRedo \/ HClearHistory

SpecHist == HistInit /\ [][HistNext]_vars


(***************************************************************************)
(* Claims about the history engine (checked under SpecHist)                *)
(***************************************************************************)
\* C1: with no skip, no filter rejection and no grouping, undo() right after
\* a setState that produced a new value makes present the value that was
\* present before that setState; redo() right after an undo() makes present
\* the value the undo replaced; and after a sequence of such setStates, n
\* undos followed by n redos end at the present they started from.
C1_UndoRedoRoundTrip ==
    /\ [][/\ (last.op = "plain" /\ last'.op = "undo")
              => hist'.present = last.pre
          /\ (last.op = "undo" /\ last'.op = "redo")
              => hist'.present = last.pre]_vars
    /\ [](cyc.phase = "redos" /\ cyc.k = 0 => hist.present = cyc.base)

C1_Witness ==
    /\ cyc.phase = "redos" /\ cyc.k = 0
    /\ last.op = "redo" /\ last.prevOp = "redo"
    /\ Len(hist.past) = 2
    /\ hist.past[1] # hist.past[2]

\* C2: past never holds more than limit entries, whatever calls are made;
\* a recorded setState made when past is full drops the oldest entry and
\* keeps the others in order.
C2_HistoryLimit ==
    /\ [](Len(hist.past) <= Limit)
    /\ [][((last'.op = "plain" \/ last'.fresh) /\ last'.full)
          => hist'.past = Append(Tail(hist.past), hist.present)]_vars

C2_Witness ==
    /\ last.op = "plain" /\ last.full
    /\ Len(hist.past) = Limit
    /\ hist.past[1] # hist.past[Limit]
    /\ hist.past[Limit] = last.pre

\* C3 (as claimed): of two consecutive recorded setState calls for which
\* groupBy returns the same non-null key, the first pushes the old present
\* and the second leaves past as it is.
C3_Original ==
    last.rep => (last.prevPushed /\ last.kept)

\* C3 (amended): of two consecutive recorded setState calls for which groupBy
\* returns the same non-empty key, when the first is not itself coalesced
\* (lastGroup differs from the key, or past is empty, before it), the first
\* pushes the old present (dropping the oldest entry of a full past) and the
\* second leaves past as it is.
C3_GroupingOneEntry ==
    (last.rep /\ Truthy(last.key) /\ last.prevFresh)
        => (last.prevPushed /\ last.kept)

C3_Witness ==
    /\ last.rep /\ Truthy(last.key) /\ last.prevFresh
    /\ last.prevPushed /\ last.kept
    /\ Len(hist.past) = 1
    /\ hist.present # last.pre


(***************************************************************************)
(* Claims about the store (checked under SpecStore / SpecStoreBig)         *)
(***************************************************************************)
\* C4 (as claimed): in every reachable state of the store, when
\* selectedElementIds holds exactly one id, selectedElementId is that id, and
\* when it is empty, selectedElementId is null.
C4_Original ==
    LET p == st.present
    IN  /\ Len(p.selectedElementIds) = 1
            => p.selectedElementId = p.selectedElementIds[1]
        /\ Len(p.selectedElementIds) = 0 => p.selectedElementId = NullId

\* C6 (as claimed): selectElement, selectMultipleElements and clearSelection
\* never add a history entry: past and future are the same before and after.
C6_Original ==
    [][slast'.op \in {"selectElement", "selectMultipleElements",
                      "clearSelection"}
       => (st'.past = st.past /\ st'.future = st.future)]_vars

\* C7 (as claimed): an updateElement / updateMultipleElements call whose
\* updates give every targeted element the values it already has leaves the
\* store state and the history as they are.
C7_Original ==
    [][(slast'.op \in {"updateElement", "updateMultipleElements"}
        /\ slast'.noop)
       => st' = st]_vars

\* C5 (as claimed): in every reachable state of the store, the states between
\* the animation-frame chunks of selectAllElements included, an element has
\* isSelected = TRUE exactly when its id is in selectedElementIds.
C5_Original ==
    LET p == st.present
    IN  \A i \in 1..Len(p.elements) :
            p.elements[i].isSelected
                <=> p.elements[i].id \in Range(p.selectedElementIds)


\* C8: at no time are two chunked runs in flight (started and neither
\* resolved nor rejected) on the one ChunkedProcessor.
InFlight == {k \in 1..Len(runs) : runs[k].status = "suspended"}

C8_Original == Cardinality(InFlight) <= 1

\* C9: a run that was suspended when cancel() was called makes no further
\* progress: it stays where it was until it resumes, and then it has
\* rejected with 'cancelled'; it never resolves.
C9_Original ==
    \A k \in 1..Len(runs) :
        runs[k].cancelSeen =>
            \/ runs[k].status = "cancelled"
            \/ runs[k].status = "suspended" /\ runs[k].i = runs[k].iAtCancel

\* C10: a processBulkTransform call that has resolved holds exactly one
\* result per input element, in input order; every call that has ended
\* without resolving has rejected, and there is no partial outcome.
C10_AllOrNothing ==
    \A k \in 1..Len(runs) :
        /\ runs[k].status \in {"suspended", "resolved", "busy", "cancelled"}
        /\ runs[k].status = "resolved" =>
              /\ Len(runs[k].results) = runs[k].n
              /\ \A j \in 1..runs[k].n : runs[k].results[j] = j

C10_Witness ==
    \E k \in 1..Len(runs) :
        /\ runs[k].status = "resolved"
        /\ runs[k].n > SYNC_THRESHOLD
        /\ runs[k].n % runs[k].chunkSize # 0
        /\ runs[k].yields >= 2
        /\ \E j \in 1..Len(runs) : runs[j].status = "cancelled"

\* C11: a chunked run that has resolved, whatever its yields were, holds
\* the very list the synchronous path computes for the same elements.
C11_ChunkedEqualsSync ==
    \A k \in 1..Len(runs) :
        (runs[k].status = "resolved" /\ runs[k].n > SYNC_THRESHOLD)
            => runs[k].results = SyncResults(runs[k].n)

C11_Witness ==
    \E k, j \in 1..Len(runs) :
        /\ runs[k].status = "resolved" /\ runs[k].n > SYNC_THRESHOLD
        /\ runs[k].yields = 3
        /\ runs[j].status = "resolved" /\ runs[j].n > SYNC_THRESHOLD
        /\ runs[j].yields = 0

\* C12: in one flush every high-priority callback runs before every
\* normal-priority one, and callbacks of the same priority run in the
\* order they were enqueued.
C12_FlushOrder ==
    \A i, j \in 1..Len(blast) :
        i < j =>
            /\ blast[j].high => blast[i].high
            /\ (blast[i].high = blast[j].high) => blast[i].id < blast[j].id

C12_Witness ==
    /\ Len(blast) = 4
    /\ blast[1].high /\ blast[2].high /\ ~blast[3].high /\ ~blast[4].high
    /\ blast[3].id < blast[1].id
    /\ blast[4].id > blast[1].id

\* C13: a setState with skipHistory = true, or whose next value is the
\* present object itself, makes the next value the present and leaves past,
\* future and lastGroup as they were.
C13_SkipLeavesHistory ==
    [][last'.op = "skip" =>
          /\ hist'.present = last'.arg
          /\ hist'.past = hist.past
          /\ hist'.future = hist.future
          /\ hist'.lastGroup = hist.lastGroup]_vars

C13_Witness ==
    /\ last.op = "skip"
    /\ hist.present # last.pre
    /\ Len(hist.past) = 2
    /\ hist.lastGroup = "a"

\* C15 as stated: after any undo() or redo() call, those that find nothing
\* to undo or redo included, lastGroup is null and a recorded setState that
\* follows pushes a new past entry.
C15_Original ==
    /\ [](last.op \in {"undo", "redo", "undoNoop", "redoNoop"}
            => hist.lastGroup = Null)
    /\ [][(last.op \in {"undo", "redo", "undoNoop", "redoNoop"}
           /\ last'.op \in {"plain", "keyed"}) => last'.pushed]_vars

\* C15: after an undo() or redo() that moved the cursor lastGroup is null,
\* and a recorded setState that follows pushes a new past entry, also when
\* its key is the key of the group open before the undo or redo.
C15_UndoEndsGroup ==
    /\ [](last.op \in {"undo", "redo"} => hist.lastGroup = Null)
    /\ [][(last.op \in {"undo", "redo"} /\ last'.op \in {"plain", "keyed"})
            => last'.pushed]_vars

C15_Witness ==
    /\ last.op = "keyed" /\ last.prevOp = "undo"
    /\ last.prevGrp = last.key
    /\ last.pushed
    /\ Len(hist.past) = 2

\* C14: undo() and redo() never change the zoom, pan and tool of the
\* present state.
C14_Original ==
    [][slast'.op \in {"undo", "redo"} =>
          /\ st'.present.zoom = st.present.zoom
          /\ st'.present.pan = st.present.pan
          /\ st'.present.tool = st.present.tool]_vars

\* el.selectionMode, undefined when the key is absent
ModeOf(el) == IF "selectionMode" \in DOMAIN el THEN el.selectionMode ELSE Undef

\* C16: selectElement(id) on an element that is not selected selects it in
\* 'transform' mode and leaves every other element deselected with no
\* selectionMode; on the only selected element it turns 'transform' into
\* 'edit' and 'edit' into 'transform', never 'skew'; selectElement(null)
\* clears the selection.
C16_SelectElementToggles ==
    [][slast'.op = "selectElement" =>
        LET id == slast'.id
            p == st.present
            q == st'.present
        IN  /\ Len(q.elements) = Len(p.elements)
            /\ q.selectedElementId = id
            /\ id = NullId =>
                /\ q.selectedElementIds = <<>>
                /\ \A i \in 1..Len(q.elements) : ~q.elements[i].isSelected
            /\ \A i \in 1..Len(p.elements) :
                /\ (p.elements[i].id = id /\ ~p.elements[i].isSelected) =>
                    /\ q.selectedElementIds = <<id>>
                    /\ q.elements[i].isSelected
                    /\ ModeOf(q.elements[i]) = "transform"
                    /\ \A j \in 1..Len(q.elements) :
                        q.elements[j].id # id =>
                            /\ ~q.elements[j].isSelected
                            /\ ModeOf(q.elements[j]) = Undef
                /\ (/\ p.elements[i].id = id
                    /\ p.elements[i].isSelected
                    /\ p.selectedElementIds = <<id>>) =>
                    /\ q.elements[i].isSelected
                    /\ ModeOf(q.elements[i]) \in {"transform", "edit"}
                    /\ ModeOf(p.elements[i]) = "transform"
                        => ModeOf(q.elements[i]) = "edit"
                    /\ ModeOf(p.elements[i]) = "edit"
                        => ModeOf(q.elements[i]) = "transform"]_vars

\* a third selectElement(id) in a row on a document of two elements
C16_Witness ==
    /\ slast.op = "selectElement" /\ slast.id # NullId
    /\ Len(st.present.elements) = 2
    /\ Len(st.past) >= 2
    /\ \E i \in 1..2 :
        /\ st.present.elements[i].id = slast.id
        /\ ModeOf(st.present.elements[i]) = "transform"
        /\ ModeOf(st.past[Len(st.past)].elements[i]) = "edit"
        /\ ModeOf(st.past[Len(st.past) - 1].elements[i]) = "transform"

\* what selectMultipleElements(ids) is to establish
SelectedExactly(q, ids) ==
    /\ Range(q.selectedElementIds) = Range(ids)
    /\ q.selectedElementId = IF Len(ids) = 1 THEN ids[1] ELSE NullId
    /\ \A i \in 1..Len(q.elements) :
        IF q.elements[i].id \in Range(ids)
        THEN q.elements[i].isSelected /\ ModeOf(q.elements[i]) = "transform"
        ELSE ~q.elements[i].isSelected

\* C17 as stated: after selectMultipleElements(ids), from any prior state,
\* the selection is exactly ids, in 'transform' mode.
C17_Original ==
    [][slast'.op = "selectMultipleElements"
          => SelectedExactly(st'.present, slast'.ids)]_vars

\* C17: selectMultipleElements(ids), ids without repetitions, leaves the
\* store as it is when ids is the current selectedElementIds as a set, and
\* otherwise makes the selection exactly ids, in 'transform' mode.
C17_SelectMultiple ==
    [][slast'.op = "selectMultipleElements" =>
          IF Range(st.present.selectedElementIds) = Range(slast'.ids)
             /\ Len(st.present.selectedElementIds) = Len(slast'.ids)
          THEN st' = st
          ELSE SelectedExactly(st'.present, slast'.ids)]_vars

C17_Witness ==
    /\ slast.op = "selectMultipleElements"
    /\ Len(slast.ids) = 1
    /\ Len(st.present.elements) = 2
    /\ Len(st.past) >= 1
    /\ Len(st.past[Len(st.past)].selectedElementIds) = 2
    /\ SelectedExactly(st.present, slast.ids)

\* C18: two flipHorizontally calls in a row, with the selection unchanged,
\* restore every selected element's coordinates to their original values.
C18_Original == (geo.phase = "flip" /\ geo.flips = 2) => geo.els = geo.orig

\* C19: with scaleX = scaleY = 1 and rotation 0 the updates of the kernel,
\* merged into the element, leave every field of the element as it was.
C19_Original ==
    (/\ geo.phase = "kernel" /\ geo.applied = 1
     /\ geo.transform = IdentityTransform)
        => \A key \in DOMAIN geo.element :
                geo.current[key] = geo.element[key]

\* the fields that hold coordinates and sizes
GeometryKeys ==
    {"x", "y", "x2", "y2", "width", "height", "radius", "radiusX", "radiusY",
     "points"}

\* C20: a transform followed by its inverse about the same pivot returns
\* the element to its original coordinates and sizes.
C20_Original ==
    (geo.phase = "kernel" /\ geo.applied = 2)
        => \A key \in DOMAIN geo.element \cap GeometryKeys :
                geo.current[key] = geo.element[key]

\* the scenario's call has been made: ScenarioRect transformed by
\* ScenarioTransform about ScenarioCenter
ScenarioApplied ==
    /\ geo.phase = "kernel" /\ geo.applied = 1
    /\ geo.element = ScenarioRect
    /\ geo.transform = ScenarioTransform
    /\ geo.center = ScenarioCenter

\* C21 as stated: the rect at (100,100) of size (120,80), transformed by
\* {scaleX 2, scaleY 1, rotation 0} about its own center (160,140), gets
\* width 240, height 80, x 40, y 140 and rotation 0.
C21_Original ==
    ScenarioApplied =>
        /\ geo.current.width = 240 * GU /\ geo.current.height = 80 * GU
        /\ geo.current.x = 40 * GU /\ geo.current.y = 140 * GU
        /\ geo.current.rotation = 0

\* C21 amended: in that scenario the rect gets width 240, height 80, x 40,
\* rotation 0 and y 100: its top edge stays where it was, because scaleY is
\* 1 and the pivot is the rect's own center (140 is the center's y).
C21_ScenarioResult ==
    ScenarioApplied =>
        /\ geo.current.width = 240 * GU /\ geo.current.height = 80 * GU
        /\ geo.current.x = 40 * GU /\ geo.current.y = 100 * GU
        /\ geo.current.rotation = 0

C21_Witness == ScenarioApplied /\ geo.current.width = 240 * GU


\* C22: an importSVG call whose content fails validation throws before any
\* setState: elements, selection and history (the whole store, past and
\* future included) and the pending selection frames are exactly as before.
C22_InvalidImportChangesNothing ==
    [][slast'.op = "importSVGInvalid" /\ steps' = steps + 1
          => st' = st /\ rafq' = rafq /\ nextId' = nextId]_vars

C22_Witness ==
    /\ slast.op = "importSVGInvalid"
    /\ Len(st.present.elements) >= 1
    /\ st.present.selectedElementIds # <<>>
    /\ Len(st.past) >= 1

\* the ids of the elements of a snapshot
ElementIds(s) == {s.elements[i].id : i \in 1..Len(s.elements)}

\* C23: updateElement with an id that matches no element, and
\* updateMultipleElements whose ids all match no element, leave the store
\* and its history exactly as they were (and raise nothing: the call
\* completes as a step).
C23_UnknownIdIgnored ==
    [][/\ steps' = steps + 1
       /\ \/ /\ slast'.op = "updateElement"
              /\ slast'.id \notin ElementIds(st.present)
          \/ /\ slast'.op = "updateMultipleElements"
              /\ Range(slast'.ids) \cap ElementIds(st.present) = {}
       => st' = st]_vars

C23_Witness ==
    /\ slast.op = "updateElement"
    /\ slast.id # NullId
    /\ slast.id \notin ElementIds(st.present)
    /\ Len(st.present.elements) >= 1
    /\ Len(st.past) >= 1

C23_WitnessMultiple ==
    /\ slast.op = "updateMultipleElements"
    /\ slast.ids # <<>>
    /\ Range(slast.ids) \cap ElementIds(st.present) = {}
    /\ Len(st.present.elements) >= 1


\* the corners of the bounding box the statement gives an element: rect,
\* anchor and anchor + size; circle and ellipse, center minus and plus the
\* radius; line, its endpoints; drawing, its points; path, anchor plus its
\* points
StatedCorners(element) ==
    IF element.type = "rect"
    THEN {[x |-> element.x, y |-> element.y],
          [x |-> element.x + element.width, y |-> element.y + element.height]}
    ELSE IF element.type = "circle"
    THEN {[x |-> element.x - element.radius, y |-> element.y - element.radius],
          [x |-> element.x + element.radius, y |-> element.y + element.radius]}
    ELSE IF element.type = "ellipse"
    THEN {[x |-> element.x - element.radiusX, y |-> element.y - element.radiusY],
          [x |-> element.x + element.radiusX, y |-> element.y + element.radiusY]}
    ELSE IF element.type = "line"
    THEN {[x |-> element.x, y |-> element.y],
          [x |-> element.x2, y |-> element.y2]}
    ELSE IF element.type = "drawing"
    THEN {[x |-> element.points[2 * k - 1], y |-> element.points[2 * k]] :
            k \in 1..(Len(element.points) \div 2)}
    ELSE {[x |-> element.x + element.path.points[k].x,
           y |-> element.y + element.path.points[k].y] :
            k \in 1..Len(element.path.points)}

\* the box spanned by a set of corners meets the box spanned by a and b
BoxesMeet(corners, a, b) ==
    LET xs == {c.x : c \in corners}
        ys == {c.y : c \in corners}
    IN  /\ GreatestIn(xs) >= Min(a.x, b.x) /\ LeastIn(xs) <= Max(a.x, b.x)
        /\ GreatestIn(ys) >= Min(a.y, b.y) /\ LeastIn(ys) <= Max(a.y, b.y)

\* C24 as stated: getElementsInRectangle(a, b) returns exactly the ids of
\* the elements whose per-kind bounding box meets the rectangle spanned by
\* a and b, and getElementsInRectangle(b, a) returns the same.
C24_Original ==
    geo.phase = "rect" =>
        /\ geo.calls >= 1 =>
            \A k \in 1..Len(geo.elements) :
                (geo.elements[k].id \in Range(geo.result))
                    <=> BoxesMeet(StatedCorners(geo.elements[k]), geo.a, geo.b)
        /\ geo.calls = 2 => geo.swapped = geo.result


\* C25 as stated: the rotation the kernel writes, normalize(old rotation +
\* transform rotation), always lies in the half-open interval (-180, 180].
C25_Original ==
    (geo.phase = "kernel" /\ geo.applied >= 1
        /\ "rotation" \in DOMAIN geo.current)
    => (geo.current.rotation > (0 - 180) * GU
            /\ geo.current.rotation <= 180 * GU)


\* C26: never more than one animation-frame flush is scheduled: the
\* requested frames are none when rafId is null and the one rafId names
\* otherwise, an add() made while a frame is requested requests no other,
\* and a frame is requested only by an add() made when none is requested
\* (the previous one has started, or clear() cancelled it).
C26_OneFlushScheduled ==
    /\ [](/\ Cardinality(bhost.frames) <= 1
          /\ bhost.frames = IF bu.rafId = NoFrame THEN {} ELSE {bu.rafId})
    /\ [][/\ bhost.frames # {} => bhost'.frames \subseteq bhost.frames
          /\ bhost'.frames # {} /\ bhost.frames = {} => bseq' > bseq]_vars

C26_Witness ==
    /\ Cardinality(bhost.frames) = 1
    /\ Len(bu.updates) + Len(bu.highPriorityUpdates) >= 3
    /\ bobs.executed # {}

\* the callbacks waiting in the queues
PendingIds == CallbackIds(bu.updates) \cup CallbackIds(bu.highPriorityUpdates)

C29_Original ==
    Cardinality({k \in 1..Len(blast) : ~blast[k].high}) <= SUB_BATCH_THRESHOLD


\* C28 as stated: a chunked run yields after every chunk except the last,
\* whether or not 16 ms have elapsed: a run that has resolved took one
\* await fewer than it has chunks.
C28_Original ==
    \A k \in 1..Len(runs) :
        (runs[k].status = "resolved" /\ runs[k].n > SYNC_THRESHOLD)
        => runs[k].yields = ChunksLeft(runs[k].n, 0, runs[k].chunkSize) - 1

\* C30 as stated: when the chunked transform of a gesture fails, the
\* fallback recomputes without the chunked processor, so it cannot fail
\* the same way and the gesture's updates are handed over.
C30_Original ==
    \A k \in 1..Len(runs) :
        runs[k].fallback =>
            /\ runs[k].n <= SYNC_THRESHOLD
            /\ runs[k].status \notin {"busy", "cancelled"}


\* C31 as stated: for a circle or ellipse, whose anchor (x, y) is its
\* center, the kernel's new anchor is the pivot plus the old anchor's offset
\* from the pivot, scaled by (scaleX, scaleY) and then rotated.
C31_Original ==
    (geo.phase = "kernel" /\ geo.applied = 1
        /\ geo.element.type \in {"circle", "ellipse"})
    => LET moved == ScaleRotate(geo.element.x - geo.center.x,
                                geo.element.y - geo.center.y, geo.transform)
       IN  /\ geo.current.x = geo.center.x + moved.x
           /\ geo.current.y = geo.center.y + moved.y


\* the points of a drawing or of a path, as pairs
PointsOf(element) ==
    IF element.type = "drawing"
    THEN [k \in 1..(Len(element.points) \div 2) |->
            [x |-> element.points[2 * k - 1], y |-> element.points[2 * k]]]
    ELSE element.path.points

\* C32 as stated: for drawings and paths alike the kernel transforms each
\* individual point, so scaling by 2 (no rotation) doubles the distance
\* between any two points of the shape, along x and along y.
C32_Original ==
    (/\ geo.phase = "kernel" /\ geo.applied = 1
     /\ \/ geo.element.type = "drawing"
        \/ geo.element.type = "path" /\ "path" \in DOMAIN geo.element
     /\ geo.transform = [scaleX |-> 2 * GU, scaleY |-> 2 * GU, rotation |-> 0])
    => LET before == PointsOf(geo.element)
           after == PointsOf(geo.current)
       IN  /\ Len(after) = Len(before)
           /\ \A i, j \in 1..Len(before) :
                /\ after[i].x - after[j].x = 2 * (before[i].x - before[j].x)
                /\ after[i].y - after[j].y = 2 * (before[i].y - before[j].y)


\* C33: every recorded setState (not skipped, not rejected by the filter),
\* whether it starts a new history entry or is coalesced into the current
\* group, leaves future empty, so canRedo is false right after it.
C33_RecordedClearsFuture ==
    last.op \in {"plain", "keyed"} => hist.future = <<>> /\ ~canRedo(hist)

C33_Witness ==
    /\ last.op \in {"plain", "keyed"}
    /\ last.prevOp = "undo"
    /\ Len(hist.past) >= 2
    /\ hist.future = <<>>


\* the timeline of a history frame: past, then present, then future
Timeline(h) == h.past \o <<h.present>> \o h.future

\* C36: undo and redo only move the cursor over the timeline: the sequence
\* past ++ [present] ++ future is the same before and after them, and so
\* is past.length + future.length.
C36_UndoRedoKeepTimeline ==
    [][last'.op \in {"undo", "undoNoop", "redo", "redoNoop"}
          => /\ Timeline(hist') = Timeline(hist)
             /\ Len(hist'.past) + Len(hist'.future)
                    = Len(hist.past) + Len(hist.future)]_vars

C36_Witness ==
    /\ last.op = "redo"
    /\ last.prevOp = "undo"
    /\ Len(hist.past) >= 1
    /\ hist.future # <<>>


\* the points of the stroke's drawing in a snapshot (0: not there)
StrokePoints(state) ==
    IF slast.id \in {state.elements[i].id : i \in 1..Len(state.elements)}
    THEN ElementWithId(state.elements, slast.id).points
    ELSE 0

\* C34: the updateDrawingLine calls that append points to the drawing in
\* progress make one undoable step: together they add exactly one entry to
\* past, whatever pan, zoom and tool changes come between them, and one
\* undo takes the drawing back to the points it had before the first of
\* them.
C34_StrokeIsOneStep ==
    /\ slast.open /\ slast.appended >= 1
        => /\ Len(st.past) = slast.pastLen + 1
           /\ StrokePoints(st.present) = slast.first + 2 * slast.appended
           /\ StrokePoints(UR_undo(st).present) = slast.first
    /\ slast.op = "undo" /\ slast.appended >= 1
        => /\ Len(st.past) = slast.pastLen
           /\ StrokePoints(st.present) = slast.first

C34_Witness ==
    /\ slast.op = "undo"
    /\ slast.appended >= 3
    /\ slast.mixed
    /\ StrokePoints(st.present) = slast.first
    /\ Len(st.future) = 1


\* the selectionMode of an element is defined
HasMode(el) == "selectionMode" \in DOMAIN el /\ el.selectionMode # Undef

C37_Original ==
    [][(slast'.op = "clearCanvas" /\ steps' = steps + 1
            /\ st.present.elements # <<>>)
          => UR_undo(st').present.elements = st.present.elements]_vars


\* a run that has started and not ended, and was not cancelled
Running(r) == r.status = "suspended" /\ ~r.cancelSeen

\* C38: the ChunkedProcessor never stays locked.  Whenever no run is in
\* flight (every run resolved, was cancelled or failed with an exception of
\* the processor callback) isProcessing is false and a processInChunks call
\* made then is not rejected as busy; and a call rejected with
\* 'ChunkedProcessor is already processing' leaves isProcessing and
\* cancelRequested as they were.
C38_NeverLocked ==
    /\ []((\A k \in 1..Len(runs) : ~Running(runs[k]))
            => /\ ~cp.isProcessing
               /\ \A o \in CallOutcomes(SYNC_THRESHOLD + 1, cp) :
                     o.run.status # "busy")
    /\ [][(Len(runs') = Len(runs) + 1 /\ runs'[Len(runs')].status = "busy")
              => cp' = cp]_vars

\* a run ended by a cancel and one by a processor exception after an await
C38_Witness ==
    /\ Len(runs) = 2
    /\ runs[1].status = "cancelled"
    /\ runs[2].status = "failed" /\ runs[2].yields >= 1
    /\ ~cp.isProcessing


\* the callback id is in one of the two queues
Queued(id) ==
    id \in CallbackIds(bu.updates) \cup CallbackIds(bu.highPriorityUpdates)

\* C39: with frames firing and no callback throwing, a callback passed to
\* add() never runs twice; it runs in the first flush that starts after it
\* was enqueued, also when it was enqueued by a callback of a running
\* flush; until then it is queued with a frame requested; and it does run,
\* unless clear() discarded it before that flush.
C39_ExactlyOnce ==
    /\ [](\A id \in 1..bseq :
            /\ bobs.times[id] <= 1
            /\ bobs.times[id] = 1 => bobs.ranAt[id] = bobs.enq[id] + 1
            /\ id \in bobs.cleared => bobs.times[id] = 0
            /\ (bobs.times[id] = 0 /\ id \notin bobs.cleared)
                  => /\ Queued(id)
                     /\ bobs.flushes = bobs.enq[id]
                     /\ bu.rafId # NoFrame /\ bu.rafId \in bhost.frames)
    /\ \A id \in 1..(MaxAdds + 1) :
          (bseq >= id)
             ~> (bseq >= id /\ (bobs.times[id] = 1 \/ id \in bobs.cleared))

\* a callback enqueued by a callback of flush 1 has run in flush 2
C39_Witness ==
    /\ bobs.flushes = 2
    /\ \E id \in 1..bseq :
          /\ bobs.enq[id] = 1 /\ bobs.ranAt[id] = 2 /\ bobs.times[id] = 1
    /\ bobs.times[1] = 1 /\ bobs.ranAt[1] = 1


\* C40 (as stated): once the multi-selection has changed, no retry timer
\* of an earlier selection sets the transformer's nodes: every call of
\* nodes(...) made by updateTransformer attaches the latest selection, and
\* with no timer left the transformer holds the latest selection's nodes.
C40_Original ==
    /\ [][tr'.attaches # tr.attaches => tr'.nodes = tr.sel]_vars
    /\ []((tr.multi /\ tr.timers = {} /\ tr.nodes # 0)
            => tr.nodes = tr.sel)

====
